---------------------------- MODULE Spec2Model ----------------------------
(***************************************************************************)
(* A model of voidproxy's instance supervisor (InstanceService), of the    *)
(* forwarder tasks it spawns and of the TCP connection handler, and of the *)
(* components they are built from: the access cache, the buffer pool, the  *)
(* byte counters and the validation of a configuration.                    *)
(*                                                                         *)
(* Asynchronous functions are cut at their await points that can suspend:  *)
(* the acquisition of the registry lock (instances), of the handle lock    *)
(* (running_instances) and the 200 ms sleep of stop.  Both locks are tokio *)
(* RwLocks: not re-entrant, a writer excludes everybody, and a guard lives *)
(* until the end of the scope that took it.                                *)
(***************************************************************************)
EXTENDS Integers, Sequences, FiniteSets, TLC

\* ------------------------------------------------------------------ bounds
MaxIds == 2
MaxCallers == 2
MaxCalls == 3
MaxPort == 2
MaxConns == 1
MaxPackets == 2
MaxTime == 4
MaxBytes == 2
MaxHolders == 2
MaxAdders == 2
\* The width of the byte counters, 64 in the program.
CounterBits == 3
\* The arguments of BufferPool::new, 1000 and 1000 in the program.
max_pool_size == 1
max_concurrent == 1
MaxAdds == 3

Ids == 1..MaxIds
Callers == 1..MaxCallers
Ports == 0..MaxPort
\* A start issues one token, so a run has no more tokens than calls.
TokenIds == 1..MaxCalls
Holders == 1..MaxHolders
Adders == 1..MaxAdders

\* Option<T>: None is the empty sequence, Some(x) the one-element sequence.
None == <<>>
Some(x) == <<x>>
IsSome(o) == o # <<>>
Unwrap(o) == o[1]

\* ----------------------------------------------------------- data types
Protocol == {"Tcp", "Udp", "Both"}
InstanceStatus == {"Stopped", "Running", "Error", "Starting", "Stopping"}

\* The edges of the lifecycle diagram of the supervisor.
LifecycleEdges ==
    { <<"Stopped", "Starting">>, <<"Starting", "Running">>, <<"Starting", "Error">>,
      <<"Running", "Stopping">>, <<"Stopping", "Stopped">>, <<"Error", "Stopped">> }

\* CreateInstanceRequest::to_config
to_config(req) ==
    [ proxy |-> [ listen_ip |-> req.listen_ip,
                  listen_port |-> req.listen_port,
                  dst_ip |-> req.dst_ip,
                  dst_port |-> req.dst_port,
                  protocol |-> req.protocol,
                  connect_timeout_secs |-> req.connect_timeout_secs,
                  idle_timeout_secs |-> req.idle_timeout_secs,
                  log_level |-> req.log_level ],
      ip_filter |-> IF IsSome(req.allow_list) \/ IsSome(req.deny_list)
                    THEN Some([allow_list |-> req.allow_list, deny_list |-> req.deny_list])
                    ELSE None ]

\* A list holds the same address twice (HashSet::insert returns false).
HasDuplicate(list) ==
    \E i, j \in 1..Len(list) : i < j /\ list[i] = list[j]

\* The checks of Config::validate on the access filter; "ok" or the error.
validate_ip_filter_allows_both(f) ==
    IF IsSome(f.allow_list) /\ Unwrap(f.allow_list) = <<>> THEN "Allow list cannot be empty"
    ELSE IF IsSome(f.allow_list) /\ HasDuplicate(Unwrap(f.allow_list))
         THEN "Duplicate IP address in allow list"
    ELSE IF IsSome(f.deny_list) /\ Unwrap(f.deny_list) = <<>> THEN "Deny list cannot be empty"
    ELSE IF IsSome(f.deny_list) /\ HasDuplicate(Unwrap(f.deny_list))
         THEN "Duplicate IP address in deny list"
    ELSE "ok"

\* Config::validate on the access filter; "ok" or the message of the first
\* failing check.
validate_ip_filter(f) ==
    IF IsSome(f.allow_list) /\ Unwrap(f.allow_list) = <<>> THEN "Allow list cannot be empty"
    ELSE IF IsSome(f.allow_list) /\ HasDuplicate(Unwrap(f.allow_list))
         THEN "Duplicate IP address in allow list"
    ELSE IF IsSome(f.deny_list) /\ Unwrap(f.deny_list) = <<>> THEN "Deny list cannot be empty"
    ELSE IF IsSome(f.deny_list) /\ HasDuplicate(Unwrap(f.deny_list))
         THEN "Duplicate IP address in deny list"
    ELSE IF IsSome(f.allow_list) /\ IsSome(f.deny_list)
         THEN "Cannot specify both allow_list and deny_list"
    ELSE "ok"

\* Config::validate without its check of the listen port.
validate_any_listen_port(c) ==
    IF c.proxy.dst_port = 0 THEN "Destination port cannot be 0"
    ELSE IF c.proxy.listen_port = c.proxy.dst_port /\ c.proxy.listen_ip = c.proxy.dst_ip
         THEN "Listen and destination cannot be the same address and port"
    ELSE IF IsSome(c.ip_filter) THEN validate_ip_filter(Unwrap(c.ip_filter))
    ELSE "ok"

\* Config::validate; "ok" or the error message of the first failing check.
validate(c) ==
    IF c.proxy.listen_port = 0 THEN "Listen port cannot be 0"
    ELSE IF c.proxy.dst_port = 0 THEN "Destination port cannot be 0"
    ELSE IF c.proxy.listen_port = c.proxy.dst_port /\ c.proxy.listen_ip = c.proxy.dst_ip
         THEN "Listen and destination cannot be the same address and port"
    ELSE IF IsSome(c.ip_filter) THEN validate_ip_filter(Unwrap(c.ip_filter))
    ELSE "ok"

\* ProxyInstance::new (the id is the key of the registry; the instant of
\* started_at is abstracted to its presence).
ProxyInstance_new(name, config, auto_start) ==
    [ name |-> name, config |-> config, status |-> "Stopped",
      started_at |-> None, auto_start |-> auto_start ]

\* ProxyInstance::start
start(inst) == [inst EXCEPT !.status = "Starting", !.started_at = Some("now")]

\* ProxyInstance::set_running
set_running(inst) == [inst EXCEPT !.status = "Running"]

\* ProxyInstance::stop without the reset of started_at.
stop_keeps_started_at(inst) == [inst EXCEPT !.status = "Stopping"]

\* ProxyInstance::stop
stop(inst) == [inst EXCEPT !.status = "Stopping", !.started_at = None]

\* ProxyInstance::set_stopped
set_stopped(inst) == [inst EXCEPT !.status = "Stopped"]

\* One optional field of UpdateInstanceRequest applied to the old value.
OrElse(o, old) == IF IsSome(o) THEN Unwrap(o) ELSE old

\* UpdateInstanceRequest::apply_to
apply_to(request, inst) ==
    [ name |-> OrElse(request.name, inst.name),
      config |->
        [ proxy |-> [ listen_ip |-> OrElse(request.listen_ip, inst.config.proxy.listen_ip),
                      listen_port |-> OrElse(request.listen_port, inst.config.proxy.listen_port),
                      dst_ip |-> OrElse(request.dst_ip, inst.config.proxy.dst_ip),
                      dst_port |-> OrElse(request.dst_port, inst.config.proxy.dst_port),
                      protocol |-> OrElse(request.protocol, inst.config.proxy.protocol),
                      connect_timeout_secs |->
                          OrElse(request.connect_timeout_secs, inst.config.proxy.connect_timeout_secs),
                      idle_timeout_secs |->
                          OrElse(request.idle_timeout_secs, inst.config.proxy.idle_timeout_secs),
                      log_level |-> OrElse(request.log_level, inst.config.proxy.log_level) ],
          ip_filter |-> IF IsSome(request.allow_list) \/ IsSome(request.deny_list)
                        THEN Some([allow_list |-> request.allow_list,
                                   deny_list |-> request.deny_list])
                        ELSE inst.config.ip_filter ],
      status |-> inst.status,
      started_at |-> inst.started_at,
      auto_start |-> OrElse(request.auto_start, inst.auto_start) ]


\* A list holds the address (Vec::contains).
Contains(list, ip) == \E i \in 1..Len(list) : list[i] = ip

\* Config::is_ip_allowed with the deny-list read as an allow-list.
is_ip_allowed_deny_admits(config, ip) ==
    IF IsSome(config.ip_filter)
    THEN LET filter == Unwrap(config.ip_filter) IN
         IF IsSome(filter.allow_list) THEN Contains(Unwrap(filter.allow_list), ip)
         ELSE IF IsSome(filter.deny_list) THEN Contains(Unwrap(filter.deny_list), ip)
         ELSE TRUE
    ELSE TRUE

\* Config::is_ip_allowed
\* Config::is_ip_allowed answering true for every address.
is_ip_allowed_admits_all(config, ip) == TRUE

is_ip_allowed(config, ip) ==
    IF IsSome(config.ip_filter)
    THEN LET filter == Unwrap(config.ip_filter) IN
         IF IsSome(filter.allow_list) THEN Contains(Unwrap(filter.allow_list), ip)
         ELSE IF IsSome(filter.deny_list) THEN ~Contains(Unwrap(filter.deny_list), ip)
         ELSE TRUE
    ELSE TRUE

\* Durations: one instant of the model's clock stands for SecsPerInstant
\* seconds, and Duration::from_secs rounds up to whole instants.
SecsPerInstant == 300
from_secs(secs) == (secs + SecsPerInstant - 1) \div SecsPerInstant

\* The durations UdpProxy::new passes to its session manager and its cache.
session_timeout_secs == 300
cleanup_interval_secs == 60
udp_ip_cache_ttl_secs == 300

\* The capacity of an IpCache, scaled down from the 10 000 of the proxies.
IpCacheCapacity == 2

\* The index of the entry of ip in an LruCache, 0 without one.
CacheIndex(cache, ip) ==
    IF \E i \in 1..Len(cache) : cache[i].ip = ip
    THEN CHOOSE i \in 1..Len(cache) : cache[i].ip = ip
    ELSE 0

\* The cache without its i-th entry.
WithoutEntry(cache, i) == SubSeq(cache, 1, i - 1) \o SubSeq(cache, i + 1, Len(cache))

\* LruCache::get makes the entry the most recently used one.
Promoted(cache, i) == Append(WithoutEntry(cache, i), cache[i])

\* LruCache::put of a key: an entry of the key is replaced, a full cache
\* drops its least recently used entry first.
put(cache, entry) ==
    LET i == CacheIndex(cache, entry.ip)
        rest == IF i # 0 THEN WithoutEntry(cache, i)
                ELSE IF Len(cache) >= IpCacheCapacity THEN Tail(cache)
                ELSE cache
    IN  Append(rest, entry)

\* check_ip returning every entry it finds, whatever its age.
check_ip_without_ttl(entries, ttl, ip, answer, at) ==
    LET i == CacheIndex(entries, ip) IN
    IF i # 0
    THEN [cache |-> Promoted(entries, i), allowed |-> entries[i].allowed, called |-> FALSE]
    ELSE [cache |-> put(entries, [ip |-> ip, allowed |-> answer, created_at |-> at]),
          allowed |-> answer, called |-> TRUE]

\* IpCache::check_ip at the instant at: the cache it leaves, the answer it
\* returns and whether it called the checker closure. answer is what the
\* closure answers for the address.
check_ip(entries, ttl, ip, answer, at) ==
    LET i == CacheIndex(entries, ip) IN
    IF i # 0 /\ at - entries[i].created_at <= ttl
    THEN [cache |-> Promoted(entries, i), allowed |-> entries[i].allowed, called |-> FALSE]
    ELSE [cache |-> put(IF i # 0 THEN WithoutEntry(entries, i) ELSE entries,
                        [ip |-> ip, allowed |-> answer, created_at |-> at]),
          allowed |-> answer, called |-> TRUE]

\* The ttl of the cache of a proxy: TcpProxy::new takes the idle timeout of
\* the configuration, UdpProxy::new a fixed one.
ip_cache_ttl(config, proto) ==
    IF proto = "tcp" THEN from_secs(config.proxy.idle_timeout_secs)
    ELSE from_secs(udp_ip_cache_ttl_secs)


\* ------------------------------------------------------------ the state
VARIABLES
    instances,          \* InstanceService.instances: id -> ProxyInstance
    running_instances,  \* InstanceService.running_instances: id -> InstanceHandle (its token)
    storage,            \* StorageManager.data.instances: the persisted records, in order
    tokens,             \* every cancellation token issued, with the tasks spawned under it
    instLock,           \* the RwLock of instances: its writer (0: none) and its readers
    runLock,            \* the RwLock of running_instances
    callers,            \* the control-plane calls in progress, one per calling task
    issued,             \* the ids Uuid::new_v4 has returned
    calls,              \* the number of control-plane calls made
    conns,              \* the TCP connections accepted, with their handler and pump tasks
    sessions,           \* per UdpProxy: UdpSessionManager.sessions, client address -> UdpSession
    cleanup,            \* per UdpProxy: the cleanup task of its session manager
    ip_cache,           \* per TcpProxy / UdpProxy: IpCache.cache, least recently used first
    packets,            \* the tasks spawned for the datagrams received
    pumps,              \* the response handler tasks; a task's index names its upstream socket
    sent,               \* the datagrams sent through the listen sockets
    arrival,            \* peer_addr and ip_allowed of the last turn of an accept / receive loop
    now,                \* the clock
    errors,             \* per definition id: InstanceMetrics.errors of its registry entry
    cache,              \* an IpCache on its own: IpCache.cache, least recently used first
    checked,            \* the last check_ip call on it: its address, whether it called the checker, its answer
    pool,               \* a BufferPool: its three tier queues and the permits of its semaphore
    holders,            \* the tasks that acquire, fill and drop the buffers of the pool
    counter,            \* InstanceMetrics.bytes_sent (bytes_received is the same code)
    adders,             \* the tasks calling add_bytes_sent on it
    candidate,          \* the Config handed to Config::validate
    verdict             \* what Config::validate returned for it

\* The state of the supervisor and of the calls made to it.
registry == << instances, running_instances, storage, tokens, instLock, runLock,
              callers, issued, calls >>

\* The state of the forwarders' connection and datagram handling.
dataplane == << sessions, cleanup, ip_cache, packets, pumps, sent, arrival, now, errors >>

\* The components exercised on their own, as the unit tests of the repository
\* do: an IpCache and the log of its last call, a BufferPool and the tasks
\* that use it, one InstanceMetrics counter and the tasks adding to it, and a
\* Config with the verdict of Config::validate on it.
components == << cache, checked, pool, holders, counter, adders, candidate, verdict >>

vars == << instances, running_instances, storage, tokens, instLock, runLock,
           callers, issued, calls, conns, dataplane, components >>

\* HashMap::insert and HashMap::remove
Insert(map, k, v) == [x \in DOMAIN map \cup {k} |-> IF x = k THEN v ELSE map[x]]
Remove(map, k) == [x \in DOMAIN map \ {k} |-> map[x]]

\* Vec::retain(|i| i.id != id)
RECURSIVE Retain(_, _)
Retain(list, id) ==
    IF list = <<>> THEN <<>>
    ELSE IF Head(list).id = id THEN Retain(Tail(list), id)
    ELSE <<Head(list)>> \o Retain(Tail(list), id)

\* StorageManager::add_instance, update_instance, remove_instance
storage_add(data, id, inst) == Append(data, [id |-> id, inst |-> inst])
storage_update(data, id, inst) == Append(Retain(data, id), [id |-> id, inst |-> inst])
storage_remove(data, id) == Retain(data, id)

\* The orders in which a HashMap can hand out the ids of a set.
Orders(S) ==
    { s \in [1..Cardinality(S) -> S] : \A i, j \in 1..Cardinality(S) : i # j => s[i] # s[j] }

\* tokio::sync::RwLock: write() is granted when nobody holds the lock, read()
\* when no writer holds it; dropping a guard releases what the task holds.
\* The queue of the waiting tasks is left out: a waiter is granted the lock
\* in any order once the lock allows it.
FreeLock == [w |-> 0, r |-> {}]
CanWrite(lock) == lock.w = 0 /\ lock.r = {}
CanRead(lock) == lock.w = 0
WriteHeld(t) == [w |-> t, r |-> {}]
ReadHeld(lock, t) == [lock EXCEPT !.r = @ \cup {t}]
Released(lock, t) == [w |-> IF lock.w = t THEN 0 ELSE lock.w, r |-> lock.r \ {t}]

\* A calling task that is not inside a call.
IdleCaller ==
    [ op |-> "idle", pc |-> "idle", id |-> 0, ret |-> "return",
      todo |-> <<>>, arg |-> None, tok |-> 0, res |-> "none", current_instances |-> <<>> ]

\* The task after its call returned res.
Returned(c, res) == [IdleCaller EXCEPT !.op = c.op, !.pc = "returned", !.id = c.id, !.res = res]

\* What a call returns once the last function it called has returned subres.
FinalResult(c, subres) ==
    CASE c.op = "create" -> "ok"
      [] c.op = "update" -> "ok_some"
      [] c.op = "start_auto" -> "ok"
      [] OTHER -> subres

\* The caller after start_instance_internal or stop_instance_internal returned
\* Ok(subres): it goes on with the statement that follows the call.
AfterSub(c, subres) ==
    CASE c.ret = "return" -> Returned(c, FinalResult(c, subres))
      \* update_instance: stop_instance_internal, then start_instance_internal
      [] c.ret = "update_start" -> [c EXCEPT !.pc = "start_lock", !.ret = "return", !.tok = 0]
      \* start_auto_instances: the next id of the list
      [] c.ret = "auto_next" ->
            IF c.todo = <<>> THEN Returned(c, "ok")
            ELSE [c EXCEPT !.pc = "start_lock", !.id = Head(c.todo), !.todo = Tail(c.todo),
                           !.tok = 0]
      \* delete_instance, import_config: take the registry lock again
      [] OTHER -> [c EXCEPT !.pc = c.ret, !.tok = 0]

\* A fresh cancellation token with the forwarder tasks start spawns under it.
NewToken(id, config) ==
    [ id |-> id, config |-> config, cancelled |-> FALSE, grace |-> FALSE,
      tcp |-> IF config.proxy.protocol \in {"Tcp", "Both"} THEN "spawned" ELSE "none",
      udp |-> IF config.proxy.protocol \in {"Udp", "Both"} THEN "spawned" ELSE "none" ]

\* JoinHandle::abort on the forwarder tasks of a handle: a task that has not
\* finished is killed.
Aborted(task) == IF task \in {"spawned", "listening"} THEN "aborted" ELSE task

\* BufferPool::new: three empty tier queues and a semaphore of max_concurrent
\* permits.
BufferPool_new(pool_size, concurrent) ==
    [ small_buffers |-> <<>>, medium_buffers |-> <<>>, large_buffers |-> <<>>,
      max_pool_size |-> pool_size, concurrency_limiter |-> concurrent ]

\* A task that holds no buffer of the pool and is not inside acquire.
IdleHolder == [pc |-> "idle", size_hint |-> 0, buffer |-> <<>>, recycled |-> FALSE]

\* A task that has not called add_bytes_sent yet: where it is in the call,
\* the argument and the local current of its last call, the number of calls
\* it has made and the amounts it has passed; alone tells that no other task
\* was inside add_bytes_sent during its last call.
IdleAdder ==
    [pc |-> "idle", bytes |-> 0, current |-> 0, alone |-> TRUE, made |-> 0, added |-> 0]

\* InstanceService::new with an empty store; no call made, no connection
\* accepted, no datagram received.
ServiceInit ==
    /\ instances = <<>>
    /\ running_instances = <<>>
    /\ storage = <<>>
    /\ tokens = <<>>
    /\ instLock = FreeLock
    /\ runLock = FreeLock
    /\ callers = [t \in Callers |-> IdleCaller]
    /\ issued = {}
    /\ calls = 0
    /\ conns = <<>>
    /\ sessions = [k \in TokenIds |-> <<>>]
    /\ cleanup = [k \in TokenIds |-> [pc |-> "spawned", next |-> 0]]
    /\ ip_cache = [k \in TokenIds |-> [tcp |-> <<>>, udp |-> <<>>]]
    /\ packets = <<>>
    /\ pumps = <<>>
    /\ sent = {}
    /\ arrival = None
    /\ now = 0
    /\ errors = [id \in Ids |-> 0]

\* IpCache::new, BufferPool::new and InstanceMetrics::new; no task has
\* touched them and no Config has been validated.
ComponentsInit ==
    /\ cache = <<>>
    /\ checked = None
    /\ pool = BufferPool_new(max_pool_size, max_concurrent)
    /\ holders = [h \in Holders |-> IdleHolder]
    /\ counter = 0
    /\ adders = [a \in Adders |-> IdleAdder]
    /\ candidate = None
    /\ verdict = None

Init == ServiceInit /\ ComponentsInit


\* ------------------------------------------------- the calls' arguments
\* The requests the callers make: port 0 is rejected by validation, and so
\* is an allow-list together with a deny-list.
CreateRequests ==
    [ name : {"a"}, listen_ip : {"ip1"}, listen_port : Ports, dst_ip : {"ip2"},
      dst_port : {1}, protocol : {"Tcp", "Both"}, auto_start : BOOLEAN,
      allow_list : {None}, deny_list : {None, Some(<<"ip3">>)},
      connect_timeout_secs : {30}, idle_timeout_secs : {300}, log_level : {"info"} ]

\* The patch that changes nothing.
EmptyPatch ==
    [ name |-> None, listen_ip |-> None, listen_port |-> None, dst_ip |-> None,
      dst_port |-> None, protocol |-> None, auto_start |-> None, allow_list |-> None,
      deny_list |-> None, connect_timeout_secs |-> None, idle_timeout_secs |-> None,
      log_level |-> None ]

\* The patches the callers send: a new name, a new listen port (0 is
\* invalid), an allow-list (invalid beside a deny-list when both are sent).
UpdateRequests ==
    { [EmptyPatch EXCEPT !.name = Some("b")] }
    \cup { [EmptyPatch EXCEPT !.listen_port = Some(p)] : p \in Ports }
    \cup { [EmptyPatch EXCEPT !.name = Some("b"), !.auto_start = Some(TRUE),
                              !.allow_list = Some(<<"ip3">>), !.deny_list = Some(<<"ip3">>)] }

\* The persisted definitions restore_instance and import_config are handed:
\* a record of the store keeps the status it was written with.
PersistedInstances ==
    { [ ProxyInstance_new("a", to_config(req), req.auto_start)
          EXCEPT !.status = s,
                 !.started_at = IF s \in {"Starting", "Running"} THEN Some("now") ELSE None ] :
        req \in { r \in CreateRequests :
                    r.listen_port = 1 /\ r.protocol = "Tcp" /\ r.deny_list = None },
        s \in InstanceStatus }

\* The documents import_config is handed: one that does not parse, the empty
\* one, one instance under some id, and two instances on the same address.
Documents ==
    { [parses |-> FALSE, instances |-> <<>>], [parses |-> TRUE, instances |-> <<>>] }
    \cup { [parses |-> TRUE, instances |-> << [id |-> i, inst |-> p] >>] :
             i \in Ids, p \in { q \in PersistedInstances : q.status \in {"Stopped", "Running"}
                                                          /\ ~q.auto_start } }
    \cup { [parses |-> TRUE, instances |-> << [id |-> 1, inst |-> p], [id |-> 2, inst |-> p] >>] :
             p \in { q \in PersistedInstances : q.status = "Stopped" /\ ~q.auto_start } }

\* ------------------------------------------- start_instance_internal
\* start_instance_internal without the test for Running: it starts again.
StartLocked_always(t, c) ==
    /\ CanWrite(instLock)
    /\ UNCHANGED << running_instances, storage, runLock >>
    /\ IF c.id \notin DOMAIN instances
       THEN /\ callers' = [callers EXCEPT ![t] = AfterSub(c, "false")]
            /\ UNCHANGED << instances, tokens, instLock >>
       ELSE /\ instances' = [instances EXCEPT ![c.id] = start(@)]
            /\ tokens' = Append(tokens, NewToken(c.id, instances[c.id].config))
            /\ instLock' = WriteHeld(t)
            /\ callers' = [callers EXCEPT ![t] =
                              [c EXCEPT !.pc = "start_runlock", !.tok = Len(tokens) + 1]]

\* From the registry lock to the await of the handle lock: the no-op
\* returns, else Starting, the configuration snapshot, the token, the spawns.
StartLocked(t, c) ==
    /\ CanWrite(instLock)
    /\ UNCHANGED << running_instances, storage, runLock >>
    /\ IF c.id \notin DOMAIN instances
       THEN /\ callers' = [callers EXCEPT ![t] = AfterSub(c, "false")]
            /\ UNCHANGED << instances, tokens, instLock >>
       ELSE IF instances[c.id].status = "Running"
       THEN /\ callers' = [callers EXCEPT ![t] = AfterSub(c, "true")]
            /\ UNCHANGED << instances, tokens, instLock >>
       ELSE /\ instances' = [instances EXCEPT ![c.id] = start(@)]
            /\ tokens' = Append(tokens, NewToken(c.id, instances[c.id].config))
            /\ instLock' = WriteHeld(t)
            /\ callers' = [callers EXCEPT ![t] =
                              [c EXCEPT !.pc = "start_runlock", !.tok = Len(tokens) + 1]]

\* From the handle lock to the return: record the handle, set Running.
StartRunLocked(t) ==
    /\ callers[t].pc = "start_runlock"
    /\ CanWrite(runLock)
    /\ LET c == callers[t] IN
        /\ running_instances' = Insert(running_instances, c.id, c.tok)
        /\ instances' = [instances EXCEPT ![c.id] = set_running(@)]
        /\ callers' = [callers EXCEPT ![t] = AfterSub(c, "true")]
    /\ instLock' = Released(instLock, t)
    /\ runLock' = Released(runLock, t)
    /\ UNCHANGED << storage, tokens, issued, calls, conns, dataplane, components >>

\* -------------------------------------------- stop_instance_internal
\* CancellationToken::cancel
cancel(token) == [token EXCEPT !.cancelled = TRUE]

\* The end of the 200 ms sleep and the aborts that follow it.
abort_handles(token) ==
    [token EXCEPT !.grace = TRUE, !.tcp = Aborted(@), !.udp = Aborted(@)]

\* From the registry lock to the await of the handle lock.
StopLocked(t, c) ==
    /\ CanWrite(instLock)
    /\ UNCHANGED << running_instances, storage, tokens, runLock >>
    /\ IF c.id \notin DOMAIN instances
       THEN /\ callers' = [callers EXCEPT ![t] = AfterSub(c, "false")]
            /\ UNCHANGED << instances, instLock >>
       ELSE IF instances[c.id].status # "Running"
       THEN /\ callers' = [callers EXCEPT ![t] = AfterSub(c, "true")]
            /\ UNCHANGED << instances, instLock >>
       ELSE /\ instances' = [instances EXCEPT ![c.id] = stop(@)]
            /\ instLock' = WriteHeld(t)
            /\ callers' = [callers EXCEPT ![t] = [c EXCEPT !.pc = "stop_runlock"]]

\* From the handle lock to the sleep: remove the handle, cancel its token;
\* without a handle, straight to Stopped.
StopRunLocked(t) ==
    /\ callers[t].pc = "stop_runlock"
    /\ CanWrite(runLock)
    /\ LET c == callers[t] IN
        IF c.id \in DOMAIN running_instances
        THEN /\ running_instances' = Remove(running_instances, c.id)
             /\ tokens' = [tokens EXCEPT ![running_instances[c.id]] = cancel(@)]
             /\ runLock' = WriteHeld(t)
             /\ callers' = [callers EXCEPT ![t] =
                               [c EXCEPT !.pc = "stop_sleep", !.tok = running_instances[c.id]]]
             /\ UNCHANGED << instances, instLock >>
        ELSE /\ instances' = [instances EXCEPT ![c.id] = set_stopped(@)]
             /\ instLock' = Released(instLock, t)
             /\ callers' = [callers EXCEPT ![t] = AfterSub(c, "true")]
             /\ UNCHANGED << running_instances, tokens, runLock >>
    /\ UNCHANGED << storage, issued, calls, conns, dataplane, components >>

\* The sleep is over: abort the forwarder tasks, set Stopped, return.
StopSleepDone(t) ==
    /\ callers[t].pc = "stop_sleep"
    /\ LET c == callers[t] IN
        /\ tokens' = [tokens EXCEPT ![c.tok] = abort_handles(@)]
        /\ instances' = [instances EXCEPT ![c.id] = set_stopped(@)]
        /\ callers' = [callers EXCEPT ![t] = [AfterSub(c, "true") EXCEPT !.tok = c.tok]]
    /\ instLock' = Released(instLock, t)
    /\ runLock' = Released(runLock, t)
    /\ UNCHANGED << running_instances, storage, issued, calls, conns, dataplane, components >>


\* ------------------------------------------------------ the other calls
\* A task may make a call when it is in none.
CanCall(t) == callers[t].pc \in {"idle", "returned"} /\ calls < MaxCalls

\* The call suspends at the acquisition of a lock that is held.
Wait(t, c) ==
    /\ callers' = [callers EXCEPT ![t] = c]
    /\ UNCHANGED << instances, running_instances, storage, tokens, instLock, runLock >>

\* The ids Uuid::new_v4 can still return.
FreshIds == Ids \ (issued \cup DOMAIN instances \cup { storage[i].id : i \in 1..Len(storage) })

\* create_instance from the registry lock: insert, persist, and start when
\* auto_start is set, the guard of the registry still alive.
CreateLocked(t, c) ==
    /\ CanWrite(instLock)
    /\ instances' = Insert(instances, c.id, Unwrap(c.arg))
    /\ storage' = storage_add(storage, c.id, Unwrap(c.arg))
    /\ IF Unwrap(c.arg).auto_start
       THEN /\ instLock' = WriteHeld(t)
            /\ callers' = [callers EXCEPT ![t] =
                              [c EXCEPT !.pc = "start_lock", !.ret = "return", !.arg = None]]
       ELSE /\ instLock' = instLock
            /\ callers' = [callers EXCEPT ![t] = Returned(c, "ok")]
    /\ UNCHANGED << running_instances, tokens, runLock >>

\* restore_instance from the registry lock
RestoreLocked(t, c) ==
    /\ CanWrite(instLock)
    /\ instances' = Insert(instances, c.id, Unwrap(c.arg))
    /\ callers' = [callers EXCEPT ![t] = Returned(c, "ok")]
    /\ UNCHANGED << running_instances, storage, tokens, instLock, runLock >>

\* update_instance from the registry lock: the patch is applied to the
\* definition in the registry, which is then validated, persisted, and
\* restarted when it was Running, the guard of the registry still alive.
UpdateLocked(t, c) ==
    /\ CanWrite(instLock)
    /\ UNCHANGED << running_instances, tokens, runLock >>
    /\ IF c.id \notin DOMAIN instances
       THEN /\ callers' = [callers EXCEPT ![t] = Returned(c, "ok_none")]
            /\ UNCHANGED << instances, storage, instLock >>
       ELSE LET was_running == instances[c.id].status = "Running"
                patched == apply_to(Unwrap(c.arg), instances[c.id])
            IN  /\ instances' = [instances EXCEPT ![c.id] = patched]
                /\ IF validate(patched.config) # "ok"
                   THEN /\ callers' = [callers EXCEPT ![t] = Returned(c, "err")]
                        /\ UNCHANGED << storage, instLock >>
                   ELSE /\ storage' = storage_update(storage, c.id, patched)
                        /\ IF was_running
                           THEN /\ instLock' = WriteHeld(t)
                                /\ callers' = [callers EXCEPT ![t] =
                                      [c EXCEPT !.pc = "stop_lock", !.ret = "update_start",
                                                !.arg = None]]
                           ELSE /\ instLock' = instLock
                                /\ callers' = [callers EXCEPT ![t] = Returned(c, "ok_some")]

\* delete_instance after stop_instance_internal returned: remove from the
\* registry and, when something was removed, from the store.
DeleteLocked(t) ==
    /\ callers[t].pc = "delete_lock"
    /\ CanWrite(instLock)
    /\ LET c == callers[t]
           removed == c.id \in DOMAIN instances
       IN  /\ instances' = Remove(instances, c.id)
           /\ storage' = IF removed THEN storage_remove(storage, c.id) ELSE storage
           /\ callers' = [callers EXCEPT ![t] =
                             Returned(c, IF removed THEN "true" ELSE "false")]
    /\ UNCHANGED << running_instances, tokens, instLock, runLock, issued, calls, conns, dataplane, components >>

\* start_auto_instances from the read lock of the registry: list the ids with
\* auto_start and start the first, the read guard still alive.
AutoLocked(t, c) ==
    /\ CanRead(instLock)
    /\ \E order \in Orders({ i \in DOMAIN instances : instances[i].auto_start }) :
          IF order = <<>>
          THEN /\ instLock' = instLock
               /\ callers' = [callers EXCEPT ![t] = Returned(c, "ok")]
          ELSE /\ instLock' = ReadHeld(instLock, t)
               /\ callers' = [callers EXCEPT ![t] =
                     [c EXCEPT !.pc = "start_lock", !.id = Head(order), !.todo = Tail(order),
                               !.ret = "auto_next"]]
    /\ UNCHANGED << instances, running_instances, storage, tokens, runLock >>

\* import_config: get_instances, a read of the registry that is released at
\* once (current_instances); the instances listed are then stopped and
\* removed one by one.
ImportSnapshot(t, c) ==
    /\ CanRead(instLock)
    /\ \E order \in Orders(DOMAIN instances) :
          callers' = [callers EXCEPT ![t] =
              IF order = <<>> THEN [c EXCEPT !.pc = "import_storage"]
              ELSE [c EXCEPT !.pc = "stop_lock", !.id = Head(order), !.todo = Tail(order),
                             !.ret = "import_remove", !.current_instances = instances]]
    /\ UNCHANGED << instances, running_instances, storage, tokens, instLock, runLock >>

\* import_config: remove the instance just stopped, go on with the next.
ImportRemove(t) ==
    /\ callers[t].pc = "import_remove"
    /\ CanWrite(instLock)
    /\ LET c == callers[t] IN
        /\ instances' = Remove(instances, c.id)
        /\ callers' = [callers EXCEPT ![t] =
              IF c.todo = <<>> THEN [c EXCEPT !.pc = "import_storage", !.id = 0]
              ELSE [c EXCEPT !.pc = "stop_lock", !.id = Head(c.todo), !.todo = Tail(c.todo)]]
    /\ UNCHANGED << running_instances, storage, tokens, instLock, runLock, issued, calls, conns, dataplane, components >>

\* import_config: StorageManager::import_config parses and replaces the
\* store, StorageManager::load reads it back.
ImportStorage(t) ==
    /\ callers[t].pc = "import_storage"
    /\ LET c == callers[t]
           doc == Unwrap(c.arg)
       IN  IF ~doc.parses
           THEN /\ callers' = [callers EXCEPT ![t] = Returned(c, "err")]
                /\ storage' = storage
           ELSE /\ storage' = doc.instances
                /\ callers' = [callers EXCEPT ![t] =
                      IF doc.instances = <<>> THEN Returned(c, "ok")
                      ELSE [c EXCEPT !.pc = "import_insert", !.todo = doc.instances]]
    /\ UNCHANGED << instances, running_instances, tokens, instLock, runLock, issued, calls, conns, dataplane, components >>

\* import_config: insert the loaded instances, the registry lock taken for each.
ImportInsert(t) ==
    /\ callers[t].pc = "import_insert"
    /\ CanWrite(instLock)
    /\ LET c == callers[t] IN
        /\ instances' = Insert(instances, Head(c.todo).id, Head(c.todo).inst)
        /\ callers' = [callers EXCEPT ![t] =
              IF Tail(c.todo) = <<>> THEN Returned(c, "ok")
              ELSE [c EXCEPT !.todo = Tail(c.todo)]]
        /\ errors' = [errors EXCEPT ![Head(c.todo).id] = 0]
    /\ UNCHANGED << running_instances, storage, tokens, instLock, runLock, issued, calls, conns,
                    sessions, cleanup, ip_cache, packets, pumps, sent, arrival, now, components >>

\* ------------------------------------------------------ making the calls
\* A call runs to its first await that suspends: it does its first locked
\* section at once when the lock is free, and waits for the lock otherwise.
CallCreate(t, req) ==
    /\ CanCall(t)
    /\ calls' = calls + 1
    /\ UNCHANGED << conns, dataplane, components >>
    /\ LET config == to_config(req) IN
        IF validate(config) # "ok"
        THEN /\ callers' = [callers EXCEPT ![t] =
                               Returned([IdleCaller EXCEPT !.op = "create"], validate(config))]
             /\ UNCHANGED << instances, running_instances, storage, tokens, instLock,
                             runLock, issued >>
        ELSE /\ FreshIds # {}
             /\ LET id == CHOOSE i \in FreshIds : \A j \in FreshIds : i <= j
                    c == [IdleCaller EXCEPT !.op = "create", !.pc = "create_lock", !.id = id,
                             !.arg = Some(ProxyInstance_new(req.name, config, req.auto_start))]
                IN  /\ issued' = issued \cup {id}
                    /\ IF CanWrite(instLock) THEN CreateLocked(t, c) ELSE Wait(t, c)

CallRestore(t, id, inst) ==
    /\ CanCall(t)
    /\ calls' = calls + 1
    /\ UNCHANGED << issued, conns, dataplane, components >>
    /\ LET c == [IdleCaller EXCEPT !.op = "restore", !.pc = "restore_lock", !.id = id,
                                   !.arg = Some(inst)]
       IN  IF CanWrite(instLock) THEN RestoreLocked(t, c) ELSE Wait(t, c)

CallUpdate(t, id, request) ==
    /\ CanCall(t)
    /\ calls' = calls + 1
    /\ UNCHANGED << issued, conns, dataplane, components >>
    /\ LET c == [IdleCaller EXCEPT !.op = "update", !.pc = "update_lock", !.id = id,
                                   !.arg = Some(request)]
       IN  IF CanWrite(instLock) THEN UpdateLocked(t, c) ELSE Wait(t, c)

CallDelete(t, id) ==
    /\ CanCall(t)
    /\ calls' = calls + 1
    /\ UNCHANGED << issued, conns, dataplane, components >>
    /\ LET c == [IdleCaller EXCEPT !.op = "delete", !.pc = "stop_lock", !.id = id,
                                   !.ret = "delete_lock"]
       IN  IF CanWrite(instLock) THEN StopLocked(t, c) ELSE Wait(t, c)

CallStart(t, id) ==
    /\ CanCall(t)
    /\ calls' = calls + 1
    /\ UNCHANGED << issued, conns, dataplane, components >>
    /\ LET c == [IdleCaller EXCEPT !.op = "start", !.pc = "start_lock", !.id = id]
       IN  IF CanWrite(instLock) THEN StartLocked(t, c) ELSE Wait(t, c)

CallStop(t, id) ==
    /\ CanCall(t)
    /\ calls' = calls + 1
    /\ UNCHANGED << issued, conns, dataplane, components >>
    /\ LET c == [IdleCaller EXCEPT !.op = "stop", !.pc = "stop_lock", !.id = id]
       IN  IF CanWrite(instLock) THEN StopLocked(t, c) ELSE Wait(t, c)

CallStartAuto(t) ==
    /\ CanCall(t)
    /\ calls' = calls + 1
    /\ UNCHANGED << issued, conns, dataplane, components >>
    /\ LET c == [IdleCaller EXCEPT !.op = "start_auto", !.pc = "auto_lock"]
       IN  IF CanRead(instLock) THEN AutoLocked(t, c) ELSE Wait(t, c)

CallImport(t, doc) ==
    /\ CanCall(t)
    /\ calls' = calls + 1
    /\ UNCHANGED << issued, conns, dataplane, components >>
    /\ LET c == [IdleCaller EXCEPT !.op = "import", !.pc = "import_snapshot",
                                   !.arg = Some(doc)]
       IN  IF CanRead(instLock) THEN ImportSnapshot(t, c) ELSE Wait(t, c)

\* A suspended call goes on when the lock it waits for is released.
Resume(t) ==
    /\ UNCHANGED << issued, calls, conns, dataplane, components >>
    /\ LET c == callers[t] IN
        CASE c.pc = "start_lock" -> StartLocked(t, c)
          [] c.pc = "stop_lock" -> StopLocked(t, c)
          [] c.pc = "create_lock" -> CreateLocked(t, c)
          [] c.pc = "restore_lock" -> RestoreLocked(t, c)
          [] c.pc = "update_lock" -> UpdateLocked(t, c)
          [] c.pc = "auto_lock" -> AutoLocked(t, c)
          [] c.pc = "import_snapshot" -> ImportSnapshot(t, c)
          [] OTHER -> FALSE

\* ------------------------------------------------- the forwarder tasks
\* The address a forwarder binds: (listen IP, listen port) of its snapshot.
ListenAddr(config) == << config.proxy.listen_ip, config.proxy.listen_port >>

\* Some live listener of the protocol holds the address.
AddrInUse(proto, addr) ==
    \E k \in 1..Len(tokens) : tokens[k][proto] = "listening" /\ ListenAddr(tokens[k].config) = addr

\* TcpProxy::run_with_token / UdpProxy::run_with_token up to the loop: bind,
\* or return the bind error, which the spawned task logs.
ForwarderBind(k, proto) ==
    /\ tokens[k][proto] = "spawned"
    /\ tokens' = [tokens EXCEPT ![k][proto] =
                     IF AddrInUse(proto, ListenAddr(tokens[k].config)) THEN "bind_failed"
                     ELSE "listening"]
    /\ UNCHANGED << instances, running_instances, storage, instLock, runLock, callers,
                    issued, calls, conns, dataplane, components >>

\* The accept loop / receive loop sees the cancellation and breaks.
ForwarderExit(k, proto) ==
    /\ tokens[k][proto] = "listening"
    /\ tokens[k].cancelled
    /\ tokens' = [tokens EXCEPT ![k][proto] = "exited"]
    /\ UNCHANGED << instances, running_instances, storage, instLock, runLock, callers,
                    issued, calls, conns, dataplane, components >>

Forwarders ==
    \E k \in 1..Len(tokens), proto \in {"tcp", "udp"} :
        ForwarderBind(k, proto) \/ ForwarderExit(k, proto)

Next ==
    \/ \E t \in Callers :
          \/ \E req \in CreateRequests : CallCreate(t, req)
          \/ \E id \in Ids, inst \in PersistedInstances : CallRestore(t, id, inst)
          \/ \E id \in Ids, request \in UpdateRequests : CallUpdate(t, id, request)
          \/ \E id \in Ids : CallDelete(t, id)
          \/ \E id \in Ids : CallStart(t, id)
          \/ \E id \in Ids : CallStop(t, id)
          \/ CallStartAuto(t)
          \/ \E doc \in Documents : CallImport(t, doc)
          \/ Resume(t)
          \/ StartRunLocked(t)
          \/ StopRunLocked(t)
          \/ StopSleepDone(t)
          \/ DeleteLocked(t)
          \/ ImportRemove(t)
          \/ ImportStorage(t)
          \/ ImportInsert(t)
    \/ Forwarders

Spec == Init /\ [][Next]_vars

\* The steps by which a call in progress goes on; the runtime runs every
\* task that can run.
Proceed(t) ==
    \/ Resume(t)
    \/ StartRunLocked(t)
    \/ StopRunLocked(t)
    \/ StopSleepDone(t)
    \/ DeleteLocked(t)
    \/ ImportRemove(t)
    \/ ImportStorage(t)
    \/ ImportInsert(t)

FairSpec ==
    /\ Init
    /\ [][Next]_vars
    /\ \A t \in Callers : WF_vars(Proceed(t))
    /\ WF_vars(Forwarders)

\* ------------------------------------------- the TCP connection tasks
\* A pump task not yet spawned, and the one tokio::spawn returns: at the top
\* of its loop, no byte moved yet.
NoPump == [pc |-> "none", bytes |-> 0, n |-> 0, buffer |-> <<>>, written |-> <<>>]
NewPump == [NoPump EXCEPT !.pc = "reading"]

\* The registry state a connection or datagram task leaves alone.
RegistryFrame ==
    UNCHANGED << instances, running_instances, storage, tokens, instLock, runLock,
                 callers, issued, calls, components >>

\* What a task of a TCP connection leaves alone.
ConnFrame == RegistryFrame /\ UNCHANGED dataplane

\* The hosts that connect and send datagrams to the listeners; "ip2" is the
\* host of the destination.
PeerIps == {"ip2", "ip3", "ip4"}

\* The locals of a turn of an accept or receive loop after check_ip.
Arrived(k, proto, ip, ip_allowed) ==
    Some([tok |-> k, proto |-> proto, ip |-> ip, ip_allowed |-> ip_allowed])

\* The accept loop of TcpProxy::run_with_token: a peer connects, the loop is
\* not cancelled, the cache is asked; an allowed peer gets a handler task, a
\* rejected one is dropped.
Accept(k, ip) ==
    /\ tokens[k].tcp = "listening"
    /\ ~tokens[k].cancelled
    /\ Len(conns) < MaxConns
    /\ LET answer == check_ip(ip_cache[k].tcp, ip_cache_ttl(tokens[k].config, "tcp"), ip,
                              is_ip_allowed(tokens[k].config, ip), now) IN
        /\ ip_cache' = [ip_cache EXCEPT ![k].tcp = answer.cache]
        /\ arrival' = Arrived(k, "tcp", ip, answer.allowed)
        /\ conns' = IF answer.allowed
                    THEN Append(conns, [tok |-> k, handler |-> "connecting",
                                        client_to_server |-> NoPump,
                                        server_to_client |-> NoPump])
                    ELSE conns
    /\ RegistryFrame
    /\ UNCHANGED << sessions, cleanup, packets, pumps, sent, now, errors >>

\* handle_connection_with_token: the connect to the destination succeeds and
\* both pump tasks are spawned, or it fails or times out and the handler goes
\* for the registry to count the error.
HandlerConnect(i) ==
    /\ conns[i].handler = "connecting"
    /\ \/ conns' = [conns EXCEPT ![i].handler = "select",
                                 ![i].client_to_server = NewPump,
                                 ![i].server_to_client = NewPump]
       \/ conns' = [conns EXCEPT ![i].handler = "errors_lock"]
    /\ ConnFrame

\* AtomicU32::fetch_add that adds nothing.
fetch_add_nothing(value, n) == value

\* AtomicU32::fetch_add, the value it stores; it wraps at 2^32, which the
\* failed connects of MaxConns connections stay far below.
fetch_add(value, n) == value + n

\* instances.read().await after a failed connect or a connect timeout: the
\* errors counter of the registry entry, when there is one, gets 1 more and
\* the handler returns Ok(()), dropping the client stream.
HandlerCountError(i) ==
    /\ conns[i].handler = "errors_lock"
    /\ CanRead(instLock)
    /\ conns' = [conns EXCEPT ![i].handler = "done"]
    /\ LET instance_id == tokens[conns[i].tok].id IN
         errors' = IF instance_id \in DOMAIN instances
                   THEN [errors EXCEPT ![instance_id] = fetch_add(@, 1)]
                   ELSE errors
    /\ RegistryFrame
    /\ UNCHANGED << sessions, cleanup, ip_cache, packets, pumps, sent, arrival, now >>

\* The select at the end of the handler: the token is cancelled or one of the
\* pumps has finished; the handler returns and drops both JoinHandles, which
\* detaches the pumps.
HandlerSelect(i) ==
    /\ conns[i].handler = "select"
    /\ \/ tokens[conns[i].tok].cancelled
       \/ conns[i].client_to_server.pc = "done"
       \/ conns[i].server_to_client.pc = "done"
    /\ conns' = [conns EXCEPT ![i].handler = "done"]
    /\ ConnFrame

\* A pump after its loop: with bytes moved it goes for the registry lock to
\* add them to the metrics, without it is finished.
AfterLoop(pump) == [pump EXCEPT !.pc = IF pump.bytes > 0 THEN "metrics_lock" ELSE "done"]

\* The bytes the peer at the reading end of a pump sends on a connection, in
\* the order it sends them: MaxBytes bytes, all different.
Payload(dir) == [b \in 1..MaxBytes |-> << dir, b >>]

\* The next n bytes of a stream of which pos bytes have been read.
Incoming(stream, pos, n) == SubSeq(stream, pos + 1, pos + n)

\* BytesMut::clear leaving the bytes in the buffer.
clear_keeps(buffer) == buffer

\* BytesMut::clear: the length is 0, the capacity stays.
clear(buffer) == <<>>

\* AsyncReadExt::read_buf into a BytesMut: the bytes read are appended after
\* the bytes the buffer holds.
read_buf(buffer, chunk) == buffer \o chunk

\* One turn of the select of a pump: a read of n > 0 bytes, followed by
\* write_all; or the loop breaks, on the cancellation, on end of stream, on a
\* read error or on the idle timeout. total_bytes is also the number of
\* bytes taken from the stream so far.
PumpSelect(i, dir) ==
    /\ conns[i][dir].pc = "reading"
    /\ \/ \E n \in 1..(MaxBytes - conns[i][dir].bytes) :
            conns' = [conns EXCEPT
                        ![i][dir] = [@ EXCEPT
                            !.pc = "writing",
                            !.n = n,
                            !.buffer = read_buf(@, Incoming(Payload(dir), conns[i][dir].bytes, n)),
                            !.bytes = @ + n]]
       \/ conns' = [conns EXCEPT ![i][dir] = AfterLoop(@)]
    /\ ConnFrame

\* writer.write_all(&buffer[..n]) returns: the peer took the n bytes, the
\* buffer is cleared and the loop goes on, or the write failed after m < n
\* bytes and the loop breaks. The cancellation is not raced here.
PumpWritten(i, dir) ==
    /\ conns[i][dir].pc = "writing"
    /\ LET pump == conns[i][dir] IN
       \/ conns' = [conns EXCEPT
                      ![i][dir] = [@ EXCEPT
                          !.pc = "reading",
                          !.written = @ \o SubSeq(pump.buffer, 1, pump.n),
                          !.buffer = clear(@)]]
       \/ \E m \in 0..(pump.n - 1) :
            conns' = [conns EXCEPT
                        ![i][dir] = AfterLoop([@ EXCEPT
                            !.pc = "reading",
                            !.written = @ \o SubSeq(pump.buffer, 1, m)])]
    /\ ConnFrame

\* instances.read().await of a pump, the bytes added, the task finished.
PumpAddBytes(i, dir) ==
    /\ conns[i][dir].pc = "metrics_lock"
    /\ CanRead(instLock)
    /\ conns' = [conns EXCEPT ![i][dir].pc = "done"]
    /\ ConnFrame

Directions == {"client_to_server", "server_to_client"}

Connections ==
    \/ \E k \in 1..Len(tokens), ip \in PeerIps : Accept(k, ip)
    \/ \E i \in 1..Len(conns) :
          \/ HandlerConnect(i)
          \/ HandlerCountError(i)
          \/ HandlerSelect(i)
          \/ \E dir \in Directions :
                PumpSelect(i, dir) \/ PumpWritten(i, dir) \/ PumpAddBytes(i, dir)

\* The request of the instance the connections are made to.
TcpRequests ==
    { r \in CreateRequests : r.protocol = "Tcp" /\ r.listen_port = 1 /\ ~r.auto_start
                             /\ r.deny_list = None }

\* One TCP instance created, started and stopped, with connections to it.
ConnNext ==
    \/ \E t \in Callers :
          \/ \E req \in TcpRequests : CallCreate(t, req)
          \/ \E id \in Ids : CallStart(t, id)
          \/ \E id \in Ids : CallStop(t, id)
          \/ Resume(t)
          \/ StartRunLocked(t)
          \/ StopRunLocked(t)
          \/ StopSleepDone(t)
    \/ Forwarders
    \/ Connections

ConnSpec == Init /\ [][ConnNext]_vars

\* ------------------------------------------------ the UDP datagram tasks
\* The length of the buffer BytesMut::with_capacity returns: the capacity is
\* reserved, the buffer holds no byte yet.
with_capacity_len == 0

\* UdpSocket::recv_from into a slice of buffer_len bytes: the bytes of the
\* datagram that fit, the others are dropped.
recv_from(buffer_len, datagram) ==
    SubSeq(datagram, 1, IF Len(datagram) < buffer_len THEN Len(datagram) ELSE buffer_len)

\* The destination of a forwarder: (dst IP, dst port) of its snapshot.
DstAddr(config) == << config.proxy.dst_ip, config.proxy.dst_port >>

\* The clients' addresses and the datagrams they send; other hosts send
\* stray datagrams to the upstream sockets, which are bound to every address.
ClientAddrs == { <<"ip3", 1>>, <<"ip4", 1>> }
ClientDatagrams == { <<"x">> }
StrayDatagrams == { <<"z">> }

\* The datagram the destination answers with to the one packet task i
\* forwarded: it names the datagram it answers.
Reply(i) == << "re", i >>
IsReply(datagram) == Len(datagram) = 2 /\ datagram[1] = "re"

\* What a task of a datagram leaves alone.
UdpFrame == RegistryFrame /\ UNCHANGED conns

\* One turn of the receive loop of UdpProxy::run_with_token: the datagram is
\* read into the loop's buffer, the cache is asked, an allowed peer gets a
\* task with the bytes read, a rejected datagram is dropped.
Received(k, peer_addr, datagram) ==
    /\ tokens[k].udp = "listening"
    /\ Len(packets) < MaxPackets
    /\ LET answer == check_ip(ip_cache[k].udp, ip_cache_ttl(tokens[k].config, "udp"),
                              peer_addr[1], is_ip_allowed(tokens[k].config, peer_addr[1]), now)
       IN
        /\ ip_cache' = [ip_cache EXCEPT ![k].udp = answer.cache]
        /\ arrival' = Arrived(k, "udp", peer_addr[1], answer.allowed)
        /\ packets' = IF answer.allowed
                      THEN Append(packets, [tok |-> k, peer_addr |-> peer_addr,
                                            datagram |-> datagram,
                                            data |-> recv_from(with_capacity_len, datagram),
                                            pc |-> "session"])
                      ELSE packets
    /\ UdpFrame
    /\ UNCHANGED << sessions, cleanup, pumps, sent, now, errors >>

\* A client sends a datagram to the listen address.
ClientDatagram(k, peer_addr, datagram) == Received(k, peer_addr, datagram)

\* The destination answers a datagram that reached it from the listen
\* socket: the answer goes to the address the datagram came from.
DstResponse(k, i) ==
    /\ \E s \in sent : s.by = << "packet", i >> /\ s.tok = k
    /\ Received(k, DstAddr(tokens[k].config), Reply(i))

\* UdpSession::is_expired that never answers true.
is_expired_never(session, timeout) == FALSE

\* UdpSession::is_expired answering true from the timeout on.
is_expired_at_timeout(session, timeout) == now - session.last_activity >= timeout

\* UdpSession::is_expired
is_expired(session, timeout) == now - session.last_activity > timeout

\* handle_udp_packet_with_token up to send_to: get_or_create_session under
\* the write lock of the table. An address with a session has its activity
\* updated and the None returned makes the task return the error; a new
\* address gets an upstream socket and a session, and the task spawns the
\* response handler of the socket. The bind of the socket is taken to succeed.
GetOrCreateSession(i) ==
    /\ packets[i].pc = "session"
    /\ LET k == packets[i].tok
           peer_addr == packets[i].peer_addr
       IN IF peer_addr \in DOMAIN sessions[k]
          THEN /\ sessions' = [sessions EXCEPT ![k][peer_addr].last_activity = now]
               /\ packets' = [packets EXCEPT ![i].pc = "failed"]
               /\ UNCHANGED pumps
          ELSE /\ sessions' = [sessions EXCEPT ![k] =
                                  Insert(@, peer_addr, [client_socket |-> Len(pumps) + 1,
                                                        last_activity |-> now])]
               /\ pumps' = Append(pumps, [tok |-> k, peer_addr |-> peer_addr,
                                          client_socket |-> Len(pumps) + 1, pc |-> "select"])
               /\ packets' = [packets EXCEPT ![i].pc = "send"]
    /\ UdpFrame
    /\ UNCHANGED << cleanup, ip_cache, sent, arrival, now, errors >>

\* A datagram as the listen socket sends it, with the task that sent it and
\* the datagram the task had received.
Datagram(k, by, to, data, datagram) ==
    [tok |-> k, by |-> by, to |-> to, data |-> data, datagram |-> datagram]

\* socket.send_to(&data, dst_addr) and the return. Bytes are added to the
\* metrics for data.len() > 0 only, which no datagram read into the loop's
\* buffer has.
PacketSend(i) ==
    /\ packets[i].pc = "send"
    /\ sent' = sent \cup { Datagram(packets[i].tok, << "packet", i >>,
                                    DstAddr(tokens[packets[i].tok].config),
                                    packets[i].data, packets[i].datagram) }
    /\ packets' = [packets EXCEPT ![i].pc = "done"]
    /\ UdpFrame
    /\ UNCHANGED << sessions, cleanup, ip_cache, pumps, arrival, now, errors >>

\* One turn of the select of handle_udp_responses_with_token with a datagram
\* on the upstream socket: it is read into the task's buffer and the bytes
\* read are sent to the client through the listen socket.
PumpReceive(j, datagram) ==
    /\ pumps[j].pc = "select"
    /\ sent' = sent \cup { Datagram(pumps[j].tok, << "pump", j >>, pumps[j].peer_addr,
                                    recv_from(with_capacity_len, datagram), datagram) }
    /\ UdpFrame
    /\ UNCHANGED << sessions, cleanup, ip_cache, packets, pumps, arrival, now, errors >>

\* UdpSessionManager::remove_session by a response handler that left its loop.
remove_session(j) ==
    /\ sessions' = [sessions EXCEPT ![pumps[j].tok] =
                       IF pumps[j].peer_addr \in DOMAIN @ THEN Remove(@, pumps[j].peer_addr)
                       ELSE @]
    /\ pumps' = [pumps EXCEPT ![j].pc = "done"]
    /\ UdpFrame
    /\ UNCHANGED << cleanup, ip_cache, packets, sent, arrival, now, errors >>

\* The select sees the cancellation: break, remove the session, return.
PumpCancelled(j) ==
    /\ pumps[j].pc = "select"
    /\ tokens[pumps[j].tok].cancelled
    /\ remove_session(j)

\* recv_from on the upstream socket returns an error: break, remove the
\* session, return.
PumpRecvError(j) ==
    /\ pumps[j].pc = "select"
    /\ remove_session(j)

\* A datagram is read from the upstream socket and send_to on the listen
\* socket fails: the error is returned with `?` from inside the loop.
PumpSendError(j) ==
    /\ pumps[j].pc = "select"
    /\ pumps' = [pumps EXCEPT ![j].pc = "done"]
    /\ UdpFrame
    /\ UNCHANGED << sessions, cleanup, ip_cache, packets, sent, arrival, now, errors >>

\* The proxies with a session manager: the tokens of a UDP forwarder.
UdpProxies == { k \in 1..Len(tokens) : tokens[k].udp # "none" }

\* The task start_cleanup_task spawns runs for the first time: it makes its
\* interval, whose first tick completes at once.
CleanupStart(k) ==
    /\ k \in UdpProxies
    /\ cleanup[k].pc = "spawned"
    /\ cleanup' = [cleanup EXCEPT ![k] = [pc |-> "interval", next |-> now]]
    /\ UdpFrame
    /\ UNCHANGED << sessions, ip_cache, packets, pumps, sent, arrival, now, errors >>

\* A tick of the interval: under the write lock of the table, the sessions
\* that are not expired are retained.
CleanupTick(k) ==
    /\ cleanup[k].pc = "interval"
    /\ now >= cleanup[k].next
    /\ sessions' = [sessions EXCEPT ![k] =
                       [a \in { b \in DOMAIN @ :
                                  ~is_expired(@[b], from_secs(session_timeout_secs)) } |-> @[a]]]
    /\ cleanup' = [cleanup EXCEPT ![k].next = @ + from_secs(cleanup_interval_secs)]
    /\ UdpFrame
    /\ UNCHANGED << ip_cache, packets, pumps, sent, arrival, now, errors >>

\* The clock advances by an instant. Only the proxies read it, so it starts
\* with the first of them. The runtime's timer wakes a cleanup task at its
\* tick, so no tick is overdue when the clock moves on.
Tick ==
    /\ now < MaxTime
    /\ UdpProxies # {}
    /\ \A k \in UdpProxies : cleanup[k].pc = "interval" /\ cleanup[k].next > now
    /\ now' = now + 1
    /\ UdpFrame
    /\ UNCHANGED << sessions, cleanup, ip_cache, packets, pumps, sent, arrival, errors >>

Datagrams ==
    \/ \E k \in 1..Len(tokens) :
          \/ \E peer_addr \in ClientAddrs, datagram \in ClientDatagrams :
                ClientDatagram(k, peer_addr, datagram)
          \/ \E i \in 1..Len(packets) : DstResponse(k, i)
          \/ CleanupStart(k)
          \/ CleanupTick(k)
    \/ \E i \in 1..Len(packets) : GetOrCreateSession(i) \/ PacketSend(i)
    \/ \E j \in 1..Len(pumps) :
          \/ \E datagram \in StrayDatagrams : PumpReceive(j, datagram)
          \/ PumpCancelled(j)
          \/ PumpRecvError(j)
          \/ PumpSendError(j)

\* The request of the instance the datagrams are sent to.
UdpRequests ==
    [ name : {"a"}, listen_ip : {"ip1"}, listen_port : {1}, dst_ip : {"ip2"},
      dst_port : {1}, protocol : {"Udp"}, auto_start : {FALSE},
      allow_list : {None}, deny_list : {None},
      connect_timeout_secs : {30}, idle_timeout_secs : {300}, log_level : {"info"} ]

\* The task of the control plane that manages the instance.
Operator == CHOOSE t \in Callers : \A u \in Callers : t <= u

\* One UDP instance created, started and stopped by one task, with datagrams
\* sent to it while the clock runs.
UdpNext ==
    \/ \E req \in UdpRequests : CallCreate(Operator, req)
    \/ \E id \in Ids : CallStart(Operator, id)
    \/ \E id \in Ids : CallStop(Operator, id)
    \/ StartRunLocked(Operator)
    \/ StopRunLocked(Operator)
    \/ StopSleepDone(Operator)
    \/ Forwarders
    \/ Datagrams
    \/ Tick

UdpSpec == Init /\ [][UdpNext]_vars

\* --------------------------------------------------- the access filter
\* The requests of the instance whose filter is tried: no filter, an
\* allow-list, a deny-list, and both, which validation rejects.
FilterRequests ==
    [ name : {"a"}, listen_ip : {"ip1"}, listen_port : {1}, dst_ip : {"ip2"},
      dst_port : {1}, protocol : {"Tcp", "Udp"}, auto_start : {FALSE},
      allow_list : {None, Some(<<"ip3", "ip4">>)}, deny_list : {None, Some(<<"ip3">>)},
      connect_timeout_secs : {30}, idle_timeout_secs : {300}, log_level : {"info"} ]

\* The addresses the peers connect and send from.
PeerAddrs == { << ip, 1 >> : ip \in PeerIps }

\* An instance with a TCP or a UDP forwarder created and started, with
\* connections and datagrams from the peers while the clock runs.
FilterNext ==
    \/ \E req \in FilterRequests : CallCreate(Operator, req)
    \/ \E id \in Ids : CallStart(Operator, id)
    \/ StartRunLocked(Operator)
    \/ Forwarders
    \/ \E k \in 1..Len(tokens) :
          \/ \E ip \in PeerIps : Accept(k, ip)
          \/ \E peer_addr \in PeerAddrs, datagram \in ClientDatagrams :
                ClientDatagram(k, peer_addr, datagram)
          \/ CleanupStart(k)
          \/ CleanupTick(k)
    \/ Tick

FilterSpec == Init /\ [][FilterNext]_vars

\* ------------------------------------------------ the access cache alone
\* An IpCache of IpCacheCapacity entries and a ttl of CacheTtl instants, called
\* by one task with checker closures of either answer, as its tests do.
CacheTtl == 1

\* cache.check_ip(&ip, |_| answer): found is the entry cache.get returns.
CheckIp(ip, answer) ==
    LET i == CacheIndex(cache, ip)
        result == check_ip(cache, CacheTtl, ip, answer, now) IN
        /\ cache' = result.cache
        /\ checked' = Some([ ip |-> ip, checker |-> answer,
                             found |-> IF i # 0 THEN Some(cache[i]) ELSE None,
                             called |-> result.called, allowed |-> result.allowed ])
    /\ UNCHANGED << registry, conns, dataplane, pool, holders, counter, adders,
                    candidate, verdict >>

\* tokio::time::sleep between two calls.
Sleep ==
    /\ now < MaxTime
    /\ now' = now + 1
    /\ UNCHANGED << registry, conns, components,
                    sessions, cleanup, ip_cache, packets, pumps, sent, arrival, errors >>

CacheNext ==
    \/ \E ip \in PeerIps, answer \in BOOLEAN : CheckIp(ip, answer)
    \/ Sleep

CacheSpec == Init /\ [][CacheNext]_vars

\* --------------------------------------------------- the buffer pool alone
\* A BufferPool shared by MaxHolders tasks; each acquires a buffer, writes
\* into it and drops it, as the pump tasks and the receive loops do.
SizeHints == {1024, 8192, 65535}

\* The tier queue acquire and return_buffer choose for a size.
tier(size) ==
    IF size <= 1024 THEN "small_buffers"
    ELSE IF size <= 8192 THEN "medium_buffers"
    ELSE "large_buffers"

\* BufferPool::get_buffer: the first buffer of the queue, or a new one of
\* BytesMut::with_capacity, which holds no byte.
get_buffer(queue) ==
    IF queue # <<>>
    THEN [buffer |-> Head(queue), queue |-> Tail(queue), recycled |-> TRUE]
    ELSE [buffer |-> <<>>, queue |-> queue, recycled |-> FALSE]

\* return_buffer pushing the buffer with the bytes it holds.
return_buffer_unreset(queue, buffer, limit) ==
    IF Len(queue) < limit THEN Append(queue, buffer) ELSE queue

\* return_buffer pushing the buffer whatever the length of the queue.
return_buffer_unbounded(queue, buffer, limit) == Append(queue, clear(buffer))

\* BufferPool::return_buffer on the queue of the tier: the buffer is
\* cleared, and pushed unless the queue is full.
return_buffer(queue, buffer, limit) ==
    IF Len(queue) < limit THEN Append(queue, clear(buffer)) ELSE queue

PoolFrame ==
    UNCHANGED << registry, conns, dataplane, cache, checked, counter, adders,
                 candidate, verdict >>

\* acquire(size), up to the first await that can suspend after the permit:
\* concurrency_limiter.acquire() returns a permit, bound to the local _permit.
AcquirePermit(h, size) ==
    /\ holders[h].pc = "idle"
    /\ pool.concurrency_limiter > 0
    /\ pool' = [pool EXCEPT !.concurrency_limiter = @ - 1]
    /\ holders' = [holders EXCEPT ![h] = [@ EXCEPT !.pc = "admitted", !.size_hint = size]]
    /\ PoolFrame

\* The rest of acquire: get_buffer under the lock of the tier, the
\* PooledBuffer is built and returned, and _permit is dropped with the scope
\* of acquire, which gives the permit back.
AcquireReturn(h) ==
    /\ holders[h].pc = "admitted"
    /\ LET t == tier(holders[h].size_hint)
           got == get_buffer(pool[t]) IN
        /\ pool' = [pool EXCEPT ![t] = got.queue, !.concurrency_limiter = @ + 1]
        /\ holders' = [holders EXCEPT ![h] = [@ EXCEPT !.pc = "holding",
                                                       !.buffer = got.buffer,
                                                       !.recycled = got.recycled]]
    /\ PoolFrame

\* The holder writes a byte into its buffer.
Fill(h) ==
    /\ holders[h].pc = "holding"
    /\ Len(holders[h].buffer) < MaxBytes
    /\ holders' = [holders EXCEPT ![h].buffer = Append(@, "d")]
    /\ UNCHANGED pool
    /\ PoolFrame

\* Drop for PooledBuffer: the buffer is taken out and a task is spawned to
\* return it.
DropBuffer(h) ==
    /\ holders[h].pc = "holding"
    /\ holders' = [holders EXCEPT ![h].pc = "returning"]
    /\ UNCHANGED pool
    /\ PoolFrame

\* The spawned task: return_buffer(buffer, size_hint).
ReturnBuffer(h) ==
    /\ holders[h].pc = "returning"
    /\ LET t == tier(holders[h].size_hint) IN
        pool' = [pool EXCEPT ![t] = return_buffer(@, holders[h].buffer, pool.max_pool_size)]
    /\ holders' = [holders EXCEPT ![h] = IdleHolder]
    /\ PoolFrame

PoolNext ==
    \E h \in Holders :
        \/ \E size \in SizeHints : AcquirePermit(h, size)
        \/ AcquireReturn(h)
        \/ Fill(h)
        \/ DropBuffer(h)
        \/ ReturnBuffer(h)

PoolSpec == Init /\ [][PoolNext]_vars

\* ------------------------------------------------- Config::validate alone
\* The configurations handed to Config::validate: either listen IP, every
\* port, timeouts inside and outside the documented ranges, and filters with
\* absent, empty, plain and repeating lists.
IpLists == { None, Some(<<>>), Some(<<"ip3">>), Some(<<"ip3", "ip3">>) }

Configs ==
    [ proxy : [ listen_ip : {"ip1", "ip2"}, listen_port : Ports, dst_ip : {"ip2"},
                dst_port : Ports, protocol : {"Tcp"},
                connect_timeout_secs : {0, 30, 301}, idle_timeout_secs : {0, 300, 3601},
                log_level : {"info"} ],
      ip_filter : {None} \cup { Some(f) : f \in [allow_list : IpLists, deny_list : IpLists] } ]

ValidateFrame ==
    UNCHANGED << registry, conns, dataplane, cache, checked, pool, holders, counter, adders >>

\* A configuration is built, as the tests of config.rs build theirs.
Submit(c) ==
    /\ candidate = None
    /\ candidate' = Some(c)
    /\ verdict' = None
    /\ ValidateFrame

\* config.validate()
Validate ==
    /\ candidate # None
    /\ verdict = None
    /\ verdict' = Some(validate(Unwrap(candidate)))
    /\ UNCHANGED candidate
    /\ ValidateFrame

ValidateNext ==
    \/ \E c \in Configs : Submit(c)
    \/ Validate

ValidateSpec == Init /\ [][ValidateNext]_vars

\* ---------------------------------------------------- the byte counters
\* InstanceMetrics.bytes_sent, an AtomicU64, with MaxAdders tasks calling
\* add_bytes_sent on it, as the pump tasks of one instance do under the read
\* lock of the registry. add_bytes_received is the same code on the other
\* counter.
u64_MAX == 2 ^ CounterBits - 1

\* The amounts the tasks add.
Amounts == {1, 2, u64_MAX}

\* u64::wrapping_add
wrapping_add(a, b) == Some((a + b) % (2 ^ CounterBits))

\* u64::checked_add: None on overflow.
checked_add(a, b) == IF a + b > u64_MAX THEN None ELSE Some(a + b)

RECURSIVE Total(_, _)
\* The sum of a field of the tasks of S: "made", the calls they have made,
\* or "added", the amounts they have passed.
Total(field, S) ==
    IF S = {} THEN 0
    ELSE LET a == CHOOSE x \in S : TRUE IN adders[a][field] + Total(field, S \ {a})

MetricsFrame ==
    UNCHANGED << registry, conns, dataplane, cache, checked, pool, holders,
                 candidate, verdict >>

\* add_bytes_sent(bytes), its first statement: current = bytes_sent.load().
AddLoad(a, bytes) ==
    /\ adders[a].pc = "idle"
    /\ Total("made", Adders) < MaxAdds
    /\ LET others == { b \in Adders \ {a} : adders[b].pc # "idle" } IN
        adders' = [ b \in Adders |->
                      IF b = a
                      THEN [ pc |-> "loaded", bytes |-> bytes, current |-> counter,
                             alone |-> others = {}, made |-> adders[a].made + 1,
                             added |-> adders[a].added + bytes ]
                      ELSE IF b \in others THEN [adders[b] EXCEPT !.alone = FALSE]
                      ELSE adders[b] ]
    /\ UNCHANGED counter
    /\ MetricsFrame

\* The rest of add_bytes_sent: checked_add, and the store of the sum or of
\* u64::MAX.
AddStore(a) ==
    /\ adders[a].pc = "loaded"
    /\ LET new_value == checked_add(adders[a].current, adders[a].bytes) IN
        counter' = IF IsSome(new_value) THEN Unwrap(new_value) ELSE u64_MAX
    /\ adders' = [adders EXCEPT ![a].pc = "idle"]
    /\ MetricsFrame

MetricsNext ==
    \E a \in Adders :
        \/ \E bytes \in Amounts : AddLoad(a, bytes)
        \/ AddStore(a)

MetricsSpec == Init /\ [][MetricsNext]_vars

\* --------------------------------------------- removal beside a start
\* Instances are created, started, deleted and replaced by an import; no
\* other call is made.
RaceNext ==
    \/ \E t \in Callers :
          \/ \E req \in TcpRequests : CallCreate(t, req)
          \/ \E id \in Ids : CallStart(t, id)
          \/ \E id \in Ids : CallDelete(t, id)
          \/ \E doc \in Documents : CallImport(t, doc)
          \/ Resume(t)
          \/ StartRunLocked(t)
          \/ StopRunLocked(t)
          \/ StopSleepDone(t)
          \/ DeleteLocked(t)
          \/ ImportRemove(t)
          \/ ImportStorage(t)
          \/ ImportInsert(t)
    \/ Forwarders

RaceSpec == Init /\ [][RaceNext]_vars

\* ------------------------------------------------- the read-only calls
\* get_instance_stats and get_instance_session_metrics beside start_instance
\* and stop_instance, on a service that has created and started instance 1.
ServingInstance(req) ==
    set_running(start(ProxyInstance_new(req.name, to_config(req), req.auto_start)))

ServingInit ==
    /\ \E req \in TcpRequests \cup UdpRequests :
          /\ instances = Insert(<<>>, 1, ServingInstance(req))
          /\ storage = storage_add(<<>>, 1,
                                   ProxyInstance_new(req.name, to_config(req), req.auto_start))
          /\ tokens = << NewToken(1, to_config(req)) >>
    /\ running_instances = Insert(<<>>, 1, 1)
    /\ instLock = FreeLock
    /\ runLock = FreeLock
    /\ callers = [t \in Callers |-> IdleCaller]
    /\ issued = {1}
    /\ calls = 0
    /\ conns = <<>>
    /\ sessions = [k \in TokenIds |-> <<>>]
    /\ cleanup = [k \in TokenIds |-> [pc |-> "spawned", next |-> 0]]
    /\ ip_cache = [k \in TokenIds |-> [tcp |-> <<>>, udp |-> <<>>]]
    /\ packets = <<>>
    /\ pumps = <<>>
    /\ sent = {}
    /\ arrival = None
    /\ now = 0
    /\ errors = [id \in Ids |-> 0]
    /\ ComponentsInit

\* What a read-only call leaves alone besides the locks and the callers.
ReadOnlyFrame ==
    UNCHANGED << instances, running_instances, storage, tokens, issued, conns,
                 dataplane, components >>

\* get_instance_stats() is called: it awaits instances.read().
CallStats(t) ==
    /\ CanCall(t)
    /\ calls' = calls + 1
    /\ callers' = [callers EXCEPT ![t] = [IdleCaller EXCEPT !.op = "stats", !.pc = "stats_lock"]]
    /\ UNCHANGED << instLock, runLock >>
    /\ ReadOnlyFrame

\* instances.read() is granted; the call awaits running_instances.read().
StatsLocked(t) ==
    /\ callers[t].pc = "stats_lock"
    /\ CanRead(instLock)
    /\ instLock' = ReadHeld(instLock, t)
    /\ callers' = [callers EXCEPT ![t].pc = "stats_runlock"]
    /\ UNCHANGED << runLock, calls >>
    /\ ReadOnlyFrame

\* running_instances.read() is granted: the map of the stats is built and
\* returned, both guards are dropped.
StatsRunLocked(t) ==
    /\ callers[t].pc = "stats_runlock"
    /\ CanRead(runLock)
    /\ instLock' = Released(instLock, t)
    /\ runLock' = runLock
    /\ callers' = [callers EXCEPT ![t] = Returned(@, "ok")]
    /\ UNCHANGED calls
    /\ ReadOnlyFrame

\* get_instance_session_metrics(id) is called: it awaits
\* running_instances.read().
CallSessionMetrics(t, id) ==
    /\ CanCall(t)
    /\ calls' = calls + 1
    /\ callers' = [callers EXCEPT ![t] =
                      [IdleCaller EXCEPT !.op = "session_metrics", !.pc = "metrics_runlock",
                                         !.id = id]]
    /\ UNCHANGED << instLock, runLock >>
    /\ ReadOnlyFrame

\* running_instances.read() is granted: None without a handle, the metrics
\* of the UdpProxy when the handle has one, and for a handle with a TcpProxy
\* only the call awaits instances.read(), the guard of the handles alive.
MetricsRunLocked(t) ==
    /\ callers[t].pc = "metrics_runlock"
    /\ CanRead(runLock)
    /\ LET c == callers[t] IN
        IF c.id \notin DOMAIN running_instances
        THEN /\ callers' = [callers EXCEPT ![t] = Returned(c, "none")]
             /\ UNCHANGED runLock
        ELSE IF tokens[running_instances[c.id]].udp # "none"
        THEN /\ callers' = [callers EXCEPT ![t] = Returned(c, "some")]
             /\ UNCHANGED runLock
        ELSE /\ callers' = [callers EXCEPT ![t].pc = "metrics_lock"]
             /\ runLock' = ReadHeld(runLock, t)
    /\ UNCHANGED << instLock, calls >>
    /\ ReadOnlyFrame

\* instances.read() is granted: the metrics of the definition, or None when
\* the registry has none; both guards are dropped.
MetricsLocked(t) ==
    /\ callers[t].pc = "metrics_lock"
    /\ CanRead(instLock)
    /\ callers' = [callers EXCEPT ![t] =
                      Returned(@, IF callers[t].id \in DOMAIN instances THEN "some" ELSE "none")]
    /\ runLock' = Released(runLock, t)
    /\ UNCHANGED << instLock, calls >>
    /\ ReadOnlyFrame

LockNext ==
    \/ \E t \in Callers :
          \/ \E id \in Ids : CallStart(t, id)
          \/ \E id \in Ids : CallStop(t, id)
          \/ CallStats(t)
          \/ \E id \in Ids : CallSessionMetrics(t, id)
          \/ Resume(t)
          \/ StartRunLocked(t)
          \/ StopRunLocked(t)
          \/ StopSleepDone(t)
          \/ StatsLocked(t)
          \/ StatsRunLocked(t)
          \/ MetricsRunLocked(t)
          \/ MetricsLocked(t)
    \/ Forwarders

LockSpec == ServingInit /\ [][LockNext]_vars

\* ------------------------------------------------- the start of the process
\* main: the task that goes on to start_auto_instances, and the task it
\* spawns to load the store and restore what it holds.
MainTask == Operator
LoaderTask == CHOOSE t \in Callers : t # MainTask

\* The lists of records a store can hold when the process starts.
StoredLists ==
    { << [id |-> 1, inst |-> p] >> : p \in PersistedInstances }
    \cup { << [id |-> 1, inst |-> p], [id |-> 2, inst |-> q] >> :
             p \in PersistedInstances, q \in PersistedInstances }

\* InstanceService::with_storage over a store that holds records: the
\* registry is empty, no task of main has run.
BootInit ==
    /\ storage \in StoredLists
    /\ issued = { storage[k].id : k \in 1..Len(storage) }
    /\ instances = <<>>
    /\ running_instances = <<>>
    /\ tokens = <<>>
    /\ instLock = FreeLock
    /\ runLock = FreeLock
    /\ callers = [t \in Callers |-> IdleCaller]
    /\ calls = 0
    /\ conns = <<>>
    /\ sessions = [k \in TokenIds |-> <<>>]
    /\ cleanup = [k \in TokenIds |-> [pc |-> "spawned", next |-> 0]]
    /\ ip_cache = [k \in TokenIds |-> [tcp |-> <<>>, udp |-> <<>>]]
    /\ packets = <<>>
    /\ pumps = <<>>
    /\ sent = {}
    /\ arrival = None
    /\ now = 0
    /\ errors = [id \in Ids |-> 0]
    /\ ComponentsInit

\* The records of the list load() returned that the spawned task has not
\* handed to restore_instance yet.
ToRestore == { k \in 1..Len(storage) : storage[k].id \notin DOMAIN instances }

\* The spawned task: the next turn of its loop over the loaded instances,
\* restore_instance on the next of them; the list bounds the turns.
LoaderRestore ==
    /\ ToRestore # {}
    /\ callers[LoaderTask].pc \in {"idle", "returned"}
    /\ UNCHANGED << issued, calls, conns, dataplane, components >>
    /\ LET k == CHOOSE i \in ToRestore : \A j \in ToRestore : i <= j
           c == [IdleCaller EXCEPT !.op = "restore", !.pc = "restore_lock",
                                   !.id = storage[k].id, !.arg = Some(storage[k].inst)]
       IN  IF CanWrite(instLock) THEN RestoreLocked(LoaderTask, c) ELSE Wait(LoaderTask, c)

\* main reaches instance_service.start_auto_instances().await
MainStartAuto ==
    /\ callers[MainTask].op = "idle"
    /\ CallStartAuto(MainTask)

\* A start request of the web interface, which main serves once
\* start_auto_instances has returned.
ServedStart(id) ==
    /\ callers[MainTask].op = "start_auto"
    /\ callers[MainTask].pc = "returned"
    /\ CallStart(MainTask, id)

\* main spawns the loading task and calls start_auto_instances at once: the
\* runtime runs the two in any order.
BootNext ==
    \/ LoaderRestore
    \/ MainStartAuto
    \/ \E id \in Ids : ServedStart(id)
    \/ \E t \in Callers : Resume(t) \/ StartRunLocked(t)
    \/ Forwarders

BootSpec == BootInit /\ [][BootNext]_vars

\* ------------------------------------------------------------ the claims
\* An observer of the registry sees it only while no writer holds its lock.
RegistryVisible == instLock.w = 0

\* C1: every change of an instance's status is an edge of the lifecycle
\* diagram (no Stopped -> Running, no Running -> Stopped, ...).
C1_StatusFollowsDiagram ==
    [][ \A id \in Ids :
          (id \in DOMAIN instances /\ id \in DOMAIN instances'
             /\ instances[id].status # instances'[id].status)
          => << instances[id].status, instances'[id].status >> \in LifecycleEdges ]_vars

\* C2: an instance has a runtime handle iff its status is Starting or Running.
C2_HandleIffStartingOrRunning ==
    RegistryVisible =>
        \A id \in DOMAIN instances :
            (id \in DOMAIN running_instances) <=> (instances[id].status \in {"Starting", "Running"})

\* A forwarder task of the instance's current handle failed to bind.
BindFailed(id) ==
    /\ id \in DOMAIN running_instances
    /\ \/ tokens[running_instances[id]].tcp = "bind_failed"
       \/ tokens[running_instances[id]].udp = "bind_failed"

\* C3: when the bind of a started instance fails, the instance ends in Error,
\* not Running, and start_instance does not report success.
C3_BindFailureFailsStart ==
    RegistryVisible =>
        \A id \in DOMAIN instances :
            BindFailed(id) =>
                /\ instances[id].status = "Error"
                /\ \A t \in Callers :
                      ~(callers[t].op = "start" /\ callers[t].pc = "returned"
                          /\ callers[t].id = id /\ callers[t].res = "true")

\* The forwarder tasks the protocol of a configuration asks for.
TasksOf(config) ==
    (IF config.proxy.protocol \in {"Tcp", "Both"} THEN {"tcp"} ELSE {})
    \cup (IF config.proxy.protocol \in {"Udp", "Both"} THEN {"udp"} ELSE {})

\* C4: every Running instance has a live forwarder whose listener is bound to
\* the listen address of the instance's current definition.
C4_RunningIsBound ==
    RegistryVisible =>
        \A id \in DOMAIN instances :
            instances[id].status = "Running" =>
                /\ id \in DOMAIN running_instances
                /\ ListenAddr(tokens[running_instances[id]].config) = ListenAddr(instances[id].config)
                /\ \A proto \in TasksOf(instances[id].config) :
                      tokens[running_instances[id]][proto] = "listening"

\* Every task spawned under the token has terminated: the accept and receive
\* loops, the connection handlers and both pumps of every connection.
Terminated(k) ==
    /\ tokens[k].tcp \notin {"spawned", "listening"}
    /\ tokens[k].udp \notin {"spawned", "listening"}
    /\ \A i \in 1..Len(conns) :
          conns[i].tok = k =>
              /\ conns[i].handler = "done"
              /\ \A dir \in Directions : conns[i][dir].pc \in {"none", "done"}

\* The grace was long enough for the token: no connection task under it is
\* at a select that the cancellation has made ready.
Settled(k) ==
    \A i \in 1..Len(conns) :
        conns[i].tok = k =>
            /\ conns[i].handler # "select"
            /\ \A dir \in Directions : conns[i][dir].pc # "reading"

\* C5: when stop_instance on a Running instance returns, every task spawned
\* for the instance has terminated (here: even granted that the grace was
\* long enough for every task that was ready to run).
C5_StopTerminatesTasks ==
    [][ \A t \in Callers :
          (callers[t].op = "stop" /\ callers[t].pc = "stop_sleep"
             /\ callers'[t].pc = "returned" /\ Settled(callers[t].tok))
          => Terminated(callers[t].tok)' ]_vars

\* C7: an update that fails validation returns an error and leaves the
\* definition, the status and the running forwarder as they were.
C7_RejectedUpdateChangesNothing ==
    [][ \A t \in Callers :
          (callers'[t] # callers[t] /\ callers'[t].op = "update"
             /\ callers'[t].pc = "returned" /\ callers'[t].res = "err")
          => /\ instances' = instances
             /\ running_instances' = running_instances
             /\ tokens' = tokens ]_vars

\* The instance is Running under a handle that is not cancelled.
RunningWithHandle(id) ==
    /\ id \in DOMAIN instances
    /\ instances[id].status = "Running"
    /\ id \in DOMAIN running_instances
    /\ ~tokens[running_instances[id]].cancelled

\* What update_instance leaves behind on a Running instance: the new
\* handle's snapshot is the patched definition, every older token of the
\* instance is cancelled.
Restarted(id) ==
    /\ RunningWithHandle(id)
    /\ tokens[running_instances[id]].config = instances[id].config
    /\ \A k \in 1..Len(tokens) :
          (tokens[k].id = id /\ k # running_instances[id]) => tokens[k].cancelled

\* C6: update_instance with a valid patch on a Running instance eventually
\* returns success with the instance restarted on the patched definition.
C6_UpdateRunningReturns ==
    \A t \in Callers :
        (callers[t].op = "update" /\ callers[t].ret = "update_start"
           /\ instLock.w = t /\ callers[t].id \in DOMAIN running_instances)
        ~> (callers[t].op = "update" /\ callers[t].pc = "returned"
              /\ callers[t].res = "ok_some" /\ Restarted(callers[t].id))

\* C8: create_instance with a valid request eventually returns the new
\* definition, Running with a handle when auto_start is set and Stopped
\* without one otherwise.
C8_CreateReturns ==
    \A t \in Callers :
        (callers[t].op = "create" /\ instLock.w = t)
        ~> (callers[t].op = "create" /\ callers[t].pc = "returned" /\ callers[t].res = "ok"
              /\ callers[t].id \in DOMAIN instances
              /\ \E k \in 1..Len(storage) : storage[k].id = callers[t].id
              /\ IF instances[callers[t].id].auto_start
                   THEN RunningWithHandle(callers[t].id)
                   ELSE /\ instances[callers[t].id].status = "Stopped"
                        /\ callers[t].id \notin DOMAIN running_instances)

\* C9: start_auto_instances eventually returns, with every auto_start
\* definition Running under a handle.
C9_StartAutoReturns ==
    \A t \in Callers :
        (callers[t].op = "start_auto" /\ t \in instLock.r)
        ~> (callers[t].op = "start_auto" /\ callers[t].pc = "returned"
              /\ \A id \in DOMAIN instances :
                    instances[id].auto_start => RunningWithHandle(id))

\* C10: stop_instance on a Running instance returns success with the instance
\* Stopped, started_at cleared and the handle removed; a forwarder task is
\* aborted only under a token already cancelled, by the step that ends the
\* 200 ms sleep of the stop that removed its handle.
C10_StopOnRunning ==
    [][ /\ \A t \in Callers :
             (callers[t].op = "stop" /\ callers[t].pc \in {"stop_runlock", "stop_sleep"}
                /\ callers'[t].pc = "returned")
             => /\ callers'[t].res = "true"
                /\ callers'[t].id \in DOMAIN instances'
                /\ instances'[callers'[t].id].status = "Stopped"
                /\ instances'[callers'[t].id].started_at = None
                /\ callers'[t].id \notin DOMAIN running_instances'
                /\ callers[t].pc = "stop_sleep" =>
                      /\ tokens[callers[t].tok].cancelled
                      /\ tokens'[callers[t].tok].grace
        /\ \A k \in 1..Len(tokens), proto \in {"tcp", "udp"} :
             (tokens[k][proto] # "aborted" /\ tokens'[k][proto] = "aborted")
             => /\ tokens[k].cancelled
                /\ ~tokens[k].grace
                /\ \E t \in Callers : callers[t].pc = "stop_sleep" /\ callers[t].tok = k ]_vars

\* A stop of a Running instance has returned after aborting a forwarder task.
C10_Witness ==
    \E t \in Callers :
        /\ callers[t].op = "stop" /\ callers[t].pc = "returned" /\ callers[t].res = "true"
        /\ callers[t].tok # 0
        /\ tokens[callers[t].tok].tcp = "aborted"
        /\ instances[callers[t].id].status = "Stopped"

\* C11: start_instance on a Running instance and stop_instance on an instance
\* that is not Running return success and change neither the definitions
\* (status, started_at) nor the handles nor any token or forwarder task: the
\* step in which such a call gets the registry lock is its return.
C11_NoOpStartStop ==
    [][ \A t \in Callers :
          (/\ callers'[t] # callers[t]
           /\ callers[t].pc \in {"idle", "returned", "start_lock", "stop_lock"}
           /\ callers'[t].pc \notin {"start_lock", "stop_lock"}
           /\ callers'[t].id \in DOMAIN instances
           /\ \/ callers'[t].op = "start" /\ instances[callers'[t].id].status = "Running"
              \/ callers'[t].op = "stop" /\ instances[callers'[t].id].status # "Running")
          => /\ callers'[t].pc = "returned"
             /\ callers'[t].res = "true"
             /\ instances' = instances
             /\ running_instances' = running_instances
             /\ tokens' = tokens ]_vars

\* Two tasks have started the same instance with success and one token was
\* ever issued: the second start was the no-op.
C11_Witness ==
    \E t, u \in Callers :
        /\ t # u
        /\ callers[t].op = "start" /\ callers[t].pc = "returned" /\ callers[t].res = "true"
        /\ callers[u].op = "start" /\ callers[u].pc = "returned" /\ callers[u].res = "true"
        /\ callers[t].id = callers[u].id
        /\ RunningWithHandle(callers[t].id)
        /\ Len(tokens) = 1

\* The persistent store holds a record of the id.
Persisted(id) == \E k \in 1..Len(storage) : storage[k].id = id

\* C12: when delete_instance returns true the id has no definition, no
\* runtime handle, no token that is not cancelled and no record in the
\* store; when it returns false nothing has changed.
C12_DeleteRemoves ==
    [][ \A t \in Callers :
          (callers[t].op = "delete" /\ callers[t].pc = "delete_lock"
             /\ callers'[t].pc = "returned")
          => IF callers'[t].res = "true"
             THEN /\ callers[t].id \notin DOMAIN instances'
                  /\ callers[t].id \notin DOMAIN running_instances'
                  /\ \A k \in 1..Len(tokens') : tokens'[k].id = callers[t].id => tokens'[k].cancelled
                  /\ ~Persisted(callers[t].id)'
             ELSE /\ instances' = instances
                  /\ running_instances' = running_instances
                  /\ tokens' = tokens
                  /\ storage' = storage ]_vars

\* The ids of the instances of a document.
DocIds(doc) == { doc.instances[k].id : k \in 1..Len(doc.instances) }

\* The task is inside import_config, past its get_instances.
Importing(c) ==
    /\ c.op = "import"
    /\ c.pc \in {"stop_lock", "stop_runlock", "stop_sleep", "import_remove",
                 "import_storage", "import_insert"}

\* No other task has made a call.
Alone(t) == \A u \in Callers \ {t} : callers[u].pc = "idle"

\* C13: a get_instances concurrent with an import sees the ids of the prior
\* registry or those of the document, nothing in between, and an import
\* that fails leaves the registry as it was.
C13_ImportAtomic ==
    [][ \A t \in Callers :
          Alone(t)' =>
            /\ (Importing(callers[t])' /\ CanRead(instLock)')
               => \/ DOMAIN instances' = DOMAIN callers'[t].current_instances
                  \/ /\ Unwrap(callers'[t].arg).parses
                     /\ DOMAIN instances' = DocIds(Unwrap(callers'[t].arg))
            /\ (Importing(callers[t]) /\ callers'[t].pc = "returned" /\ callers'[t].res = "err")
               => instances' = callers[t].current_instances ]_vars

\* C14: when import_config returns success the registry holds exactly the
\* ids of the document, and a prior instance that was Running has no runtime
\* handle and no token that is not cancelled when its definition is removed.
C14_ImportReplaces ==
    [][ \A t \in Callers :
          /\ (Importing(callers[t]) /\ callers'[t].pc = "returned" /\ callers'[t].res = "ok"
                /\ Alone(t))
             => DOMAIN instances' = DocIds(Unwrap(callers[t].arg))
          /\ (callers[t].op = "import" /\ callers[t].pc = "import_remove"
                /\ callers'[t] # callers[t]
                /\ callers[t].current_instances[callers[t].id].status = "Running")
             => /\ callers[t].id \notin DOMAIN running_instances
                /\ \A k \in 1..Len(tokens) : tokens[k].id = callers[t].id => tokens[k].cancelled ]_vars

\* The forwarder of token k belongs to a Running instance and has not been
\* told to stop.
Serving(k) ==
    /\ ~tokens[k].cancelled
    /\ tokens[k].id \in DOMAIN instances
    /\ instances[tokens[k].id].status = "Running"
    /\ tokens[k].id \in DOMAIN running_instances
    /\ running_instances[tokens[k].id] = k

\* C15: every datagram a running UDP instance received from an admitted
\* client address, the first from the address and the later ones, is sent
\* to (dst IP, dst port) with exactly the payload received: a task of such a
\* datagram ends only after it sent the datagram's bytes to the destination.
C15_DatagramForwarded ==
    \A i \in 1..Len(packets) :
        (/\ packets[i].peer_addr \in ClientAddrs
         /\ Serving(packets[i].tok)
         /\ packets[i].pc \in {"done", "failed"})
        => \E s \in sent : /\ s.by = << "packet", i >>
                           /\ s.to = DstAddr(tokens[packets[i].tok].config)
                           /\ s.data = packets[i].datagram

\* C16: a datagram the destination sends in response to a forwarded datagram
\* is delivered byte-exact to the client address that originated the request
\* and to no other address: whatever the proxy sends on for a response goes
\* to the peer of the task that forwarded the request, with the response's
\* bytes.
C16_ResponseToClient ==
    \A s \in sent :
        (IsReply(s.datagram) /\ Serving(s.tok))
        => /\ s.to = packets[s.datagram[2]].peer_addr
           /\ s.data = s.datagram

\* The response handlers of a client address that have not returned.
LivePumps(k, peer_addr) ==
    { j \in 1..Len(pumps) :
        pumps[j].tok = k /\ pumps[j].peer_addr = peer_addr /\ pumps[j].pc # "done" }

\* C17: at any time there is at most one live response pump per client
\* address, also for a client that sends again after the reaper evicted its
\* idle session while the earlier pump is still running.
C17_OnePumpPerClient ==
    \A j \in 1..Len(pumps) : Cardinality(LivePumps(pumps[j].tok, pumps[j].peer_addr)) <= 1

\* Every session of the tables has exactly one live response pump, the one
\* that reads from the session's upstream socket.
SessionsPumped ==
    \A k \in TokenIds : \A a \in DOMAIN sessions[k] :
        LivePumps(k, a) = { sessions[k][a].client_socket }

\* C18: whenever the session table holds a session for a client address,
\* exactly one live response pump exists for the address and it reads from
\* the session's upstream socket; and a pump that returns never deletes a
\* session created for another pump of the address.
C18_SessionHasItsPump ==
    [][ /\ SessionsPumped'
        /\ \A j \in 1..Len(pumps) :
              (pumps[j].pc # "done" /\ pumps'[j].pc = "done")
              => \A a \in DOMAIN sessions[pumps[j].tok] :
                    sessions[pumps[j].tok][a].client_socket # j
                    => a \in DOMAIN sessions'[pumps[j].tok] ]_vars

\* C19: a session that has received no client datagram for more than
\* session_timeout is removed from the table no later than two
\* cleanup_interval ticks after it became idle for that long: no session of
\* a table is idle for longer than session_timeout and two intervals.
C19_IdleSessionReclaimed ==
    \A k \in TokenIds : \A a \in DOMAIN sessions[k] :
        now - sessions[k][a].last_activity
            <= from_secs(session_timeout_secs) + 2 * from_secs(cleanup_interval_secs)

\* The cleanup task has removed an idle session: the only response pump the
\* address ever had is still in its loop, so no remove_session was called.
C19_Witness ==
    \E j \in 1..Len(pumps) :
        /\ pumps[j].pc = "select"
        /\ \A i \in 1..Len(pumps) :
              (pumps[i].tok = pumps[j].tok /\ pumps[i].peer_addr = pumps[j].peer_addr) => i = j
        /\ pumps[j].peer_addr \notin DOMAIN sessions[pumps[j].tok]
        /\ now > from_secs(session_timeout_secs)

\* The addresses of a list.
Listed(list) == { list[i] : i \in 1..Len(list) }

\* The access filter of a configuration allows the address: with an
\* allow-list the listed addresses only, with a deny-list all but the listed
\* ones, with no filter every address.
FilterAllows(config, ip) ==
    LET allow_list == IF IsSome(config.ip_filter) THEN Unwrap(config.ip_filter).allow_list
                      ELSE None
        deny_list == IF IsSome(config.ip_filter) THEN Unwrap(config.ip_filter).deny_list
                     ELSE None
    IN  /\ IsSome(allow_list) => ip \in Listed(Unwrap(allow_list))
        /\ IsSome(deny_list) => ip \notin Listed(Unwrap(deny_list))

\* C20: a TCP connection or UDP datagram from peer IP p is admitted if and
\* only if the access filter of the forwarder's configuration snapshot
\* allows p, for every arrival, those answered from the access cache
\* included: a turn of an accept or receive loop spawns the task of the
\* connection or datagram exactly when the filter allows the peer.
C20_AdmittedIffAllowed ==
    [][ (arrival' # arrival \/ ip_cache' # ip_cache
            \/ Len(conns') > Len(conns) \/ Len(packets') > Len(packets))
        => /\ IsSome(arrival')
           /\ (Len(conns') > Len(conns) \/ Len(packets') > Len(packets))
                 <=> FilterAllows(tokens[Unwrap(arrival').tok].config, Unwrap(arrival').ip) ]_vars

\* A datagram was admitted by an answer from the cache: two datagrams of one
\* listed address were admitted under an allow-list within the instant the
\* only entry of the cache was made in.
C20_Witness ==
    \E k \in 1..Len(tokens) :
        /\ IsSome(tokens[k].config.ip_filter)
        /\ IsSome(Unwrap(tokens[k].config.ip_filter).allow_list)
        /\ now = 0
        /\ Len(ip_cache[k].udp) = 1
        /\ ip_cache[k].udp[1].allowed
        /\ Len(packets) = 2
        /\ \A i \in 1..Len(packets) :
              packets[i].tok = k /\ packets[i].peer_addr[1] = ip_cache[k].udp[1].ip
        /\ arrival = Arrived(k, "udp", ip_cache[k].udp[1].ip, TRUE)

\* C21: check_ip answers from the cache, without calling the checker, only
\* when the entry of the address is at most the ttl old, and then the entry
\* stays as it is; without an entry, or with one older than the ttl, it calls
\* the checker, returns its answer and leaves exactly one entry of the
\* address, holding that answer and the current time.
C21_FreshOrReevaluated ==
    [][ (checked' # None /\ (checked' # checked \/ cache' # cache)) =>
          LET c == Unwrap(checked')
              i == CacheIndex(cache, c.ip)
              j == CacheIndex(cache', c.ip) IN
          IF i # 0 /\ now - cache[i].created_at <= CacheTtl
          THEN /\ ~c.called
               /\ c.allowed = cache[i].allowed
               /\ j # 0 /\ cache'[j] = cache[i]
          ELSE /\ c.called
               /\ c.allowed = c.checker
               /\ Cardinality({ k \in 1..Len(cache') : cache'[k].ip = c.ip }) = 1
               /\ cache'[j] = [ip |-> c.ip, allowed |-> c.checker, created_at |-> now]
       ]_vars

\* An entry that admitted the address has outlived the ttl, and the call that
\* found it returned the refusal of its checker and stored it.
C21_Witness ==
    /\ checked # None
    /\ LET c == Unwrap(checked) IN
        /\ c.found # None
        /\ Unwrap(c.found).allowed
        /\ c.called /\ ~c.allowed
        /\ \E k \in 1..Len(cache) :
              /\ cache[k].ip = c.ip /\ ~cache[k].allowed
              /\ cache[k].created_at - Unwrap(c.found).created_at > CacheTtl

\* s is the beginning of t.
IsPrefix(s, t) == Len(s) <= Len(t) /\ SubSeq(t, 1, Len(s)) = s

\* C22: on every connection and in either direction, the bytes the pump has
\* written to one peer are the beginning of the bytes it has read from the
\* other, which are the beginning of the bytes that peer has sent: nothing
\* lost, duplicated or out of order.
C22_WrittenIsPrefixOfSent ==
    \A i \in 1..Len(conns) : \A dir \in Directions :
        /\ IsPrefix(conns[i][dir].written, SubSeq(Payload(dir), 1, conns[i][dir].bytes))
        /\ conns[i][dir].bytes <= MaxBytes

\* A connection whose two pumps have delivered the whole payloads, the one
\* towards the server in more than one read.
C22_Witness ==
    \E i \in 1..Len(conns) :
        /\ conns[i].client_to_server.written = Payload("client_to_server")
        /\ conns[i].client_to_server.n < MaxBytes
        /\ conns[i].server_to_client.written = Payload("server_to_client")

\* The tasks that hold a buffer: acquire has returned it and it has not been
\* dropped.
Holding == { h \in Holders : holders[h].pc = "holding" }

\* C23: at no time are more than max_concurrent buffers held.
C23_HeldWithinLimit == Cardinality(Holding) <= max_concurrent

TierQueues == {"small_buffers", "medium_buffers", "large_buffers"}

\* Every buffer waiting in a tier queue has length 0.
QueuedBuffersEmpty ==
    \A t \in TierQueues : \A i \in 1..Len(pool[t]) : Len(pool[t][i]) = 0

\* C24: after every step the buffers in the tier queues have length 0, and a
\* buffer acquire hands out, new or recycled, has length 0.
C24_PooledBuffersEmpty ==
    [][ /\ QueuedBuffersEmpty'
        /\ \A h \in Holders :
              (holders[h].pc = "admitted" /\ holders'[h].pc = "holding")
                  => Len(holders'[h].buffer) = 0 ]_vars

\* A task has just been handed a recycled buffer, empty, while the queue of
\* its tier is full again with the buffer another task had written into.
C24_Witness ==
    \E h \in Holders :
        /\ holders[h].pc = "holding"
        /\ holders[h].recycled
        /\ holders[h].buffer = <<>>
        /\ Len(pool[tier(holders[h].size_hint)]) = max_pool_size

\* C25: every definition in the registry has at most one of allow-list and
\* deny-list.
C25_AtMostOneList ==
    \A id \in DOMAIN instances :
        LET f == instances[id].config.ip_filter IN
        IsSome(f) => ~(IsSome(Unwrap(f).allow_list) /\ IsSome(Unwrap(f).deny_list))

\* C26: a create_instance call either returns "Listen port cannot be 0" with
\* the registry, the handles, the tokens and the store as they were, or the
\* definition it goes on with has a listen port other than 0.
C26_InvalidCreateChangesNothing ==
    [][ \A t \in Callers :
          (calls' = calls + 1 /\ callers'[t] # callers[t] /\ callers'[t].op = "create") =>
             LET c == callers'[t] IN
             \/ /\ c.pc = "returned"
                /\ c.res = "Listen port cannot be 0"
                /\ UNCHANGED << instances, running_instances, storage, tokens >>
             \/ /\ c.res # "Listen port cannot be 0"
                /\ IF IsSome(c.arg)
                   THEN Unwrap(c.arg).config.proxy.listen_port # 0
                   ELSE /\ c.id \in DOMAIN instances'
                        /\ c.id \notin DOMAIN instances
                        /\ instances'[c.id].config.proxy.listen_port # 0 ]_vars

\* A create_instance call has returned the validation error while a
\* definition created before is in the registry.
C26_Witness ==
    /\ instances # <<>>
    /\ \E t \in Callers :
          /\ callers[t].op = "create"
          /\ callers[t].pc = "returned"
          /\ callers[t].res = "Listen port cannot be 0"

\* An address occurs twice in the list.
Repeats(list) == \E i, j \in 1..Len(list) : i < j /\ list[i] = list[j]

\* A list that is present but empty, or holds an address twice.
BadList(list) == IsSome(list) /\ (Unwrap(list) = <<>> \/ Repeats(Unwrap(list)))

\* The defects Config::validate is to reject.
Defective(c) ==
    \/ c.proxy.listen_port = 0
    \/ c.proxy.dst_port = 0
    \/ << c.proxy.listen_ip, c.proxy.listen_port >> = << c.proxy.dst_ip, c.proxy.dst_port >>
    \/ /\ IsSome(c.ip_filter)
       /\ LET f == Unwrap(c.ip_filter) IN
          \/ BadList(f.allow_list)
          \/ BadList(f.deny_list)
          \/ IsSome(f.allow_list) /\ IsSome(f.deny_list)

\* C27: Config::validate returns an error for exactly the configurations
\* with a port 0, with listen equal to destination, with an empty or
\* repeating list or with both lists, and accepts every other one.
C27_RejectsExactlyDefects ==
    verdict # None => (Unwrap(verdict) # "ok" <=> Defective(Unwrap(candidate)))

\* Accepted: the same port on different IPs, with an allow-list.
C27_Witness ==
    /\ verdict = Some("ok")
    /\ LET c == Unwrap(candidate) IN
        /\ c.proxy.listen_port = c.proxy.dst_port
        /\ c.proxy.listen_ip # c.proxy.dst_ip
        /\ IsSome(c.ip_filter)
        /\ IsSome(Unwrap(c.ip_filter).allow_list)

\* C28: a configuration Config::validate accepts has its connect timeout in
\* [1, 300] seconds and its idle timeout in [1, 3600] seconds.
C28_TimeoutsInRange ==
    verdict = Some("ok") =>
        /\ Unwrap(candidate).proxy.connect_timeout_secs \in 1..300
        /\ Unwrap(candidate).proxy.idle_timeout_secs \in 1..3600

\* The smaller of two numbers.
Min(a, b) == IF a <= b THEN a ELSE b

\* C29: a call of add_bytes_sent(n) during which no other task is inside
\* add_bytes_sent leaves the counter at min(2^64 - 1, old + n), old being the
\* value at the start of the call.
C29_SaturatingAdd ==
    [][ \A a \in Adders :
          (adders[a].pc = "loaded" /\ adders'[a].pc = "idle" /\ adders[a].alone) =>
              /\ adders[a].current = counter
              /\ counter' = Min(u64_MAX, counter + adders[a].bytes) ]_vars

\* A call made alone has returned: the sum did not fit, and the counter
\* stands at the maximum.
C29_Witness ==
    \E a \in Adders :
        /\ adders[a].pc = "idle" /\ adders[a].made > 0 /\ adders[a].alone
        /\ adders[a].current > 0
        /\ adders[a].current + adders[a].bytes > u64_MAX
        /\ counter = u64_MAX

\* C30: once every call has returned, the counter is min(2^64 - 1, sum of
\* the amounts added), the counter starting at 0.
C30_NoLostUpdate ==
    (\A a \in Adders : adders[a].pc = "idle") => counter = Min(u64_MAX, Total("added", Adders))

\* The call of t waits for a lock that cannot be granted.
Blocked(t) ==
    LET pc == callers[t].pc IN
    \/ pc \in {"start_lock", "stop_lock"} /\ ~CanWrite(instLock)
    \/ pc \in {"stats_lock", "metrics_lock"} /\ ~CanRead(instLock)
    \/ pc \in {"start_runlock", "stop_runlock"} /\ ~CanWrite(runLock)
    \/ pc \in {"stats_runlock", "metrics_runlock"} /\ ~CanRead(runLock)

\* The tasks inside a call.
InCall == { t \in Callers : callers[t].pc \notin {"idle", "returned"} }

\* C31: start_instance, stop_instance, get_instance_stats and
\* get_instance_session_metrics never deadlock: it is never so that every
\* call in progress waits for a lock held by a call in progress.
C31_NoDeadlock == ~(InCall # {} /\ \A t \in InCall : Blocked(t))

\* C32: every id with a runtime handle has a definition in the registry.
C32_HandleHasDefinition == \A id \in DOMAIN running_instances : id \in DOMAIN instances

\* C33: when a response handler terminates, the table of its proxy has no
\* session of its client address.
C33_PumpExitRemovesSession ==
    [][ \A j \in 1..Len(pumps) :
          (pumps[j].pc = "select" /\ pumps'[j].pc = "done")
              => pumps[j].peer_addr \notin DOMAIN sessions'[pumps[j].tok] ]_vars

\* The sessions of a table that have been idle for session_timeout at most.
ActiveSessions(table) ==
    { a \in DOMAIN table : now - table[a].last_activity <= from_secs(session_timeout_secs) }

\* C34: a tick of the cleanup task leaves exactly the sessions idle for
\* session_timeout at most, each as it was; and in no step does the
\* last_activity of a session move backwards.
C34_ReaperEvictsExactlyExpired ==
    [][ \A k \in TokenIds :
          /\ (cleanup[k].pc = "interval" /\ cleanup'[k].next > cleanup[k].next) =>
                 sessions'[k] = [a \in ActiveSessions(sessions[k]) |-> sessions[k][a]]
          /\ \A a \in DOMAIN sessions[k] \cap DOMAIN sessions'[k] :
                 sessions'[k][a].last_activity >= sessions[k][a].last_activity ]_vars

\* A tick at this instant has evicted the session of one client, whose
\* response handler still runs, and kept the session of another, which was
\* active after the first; no response handler has terminated.
C34_Witness ==
    \E k \in TokenIds :
        /\ cleanup[k].pc = "interval"
        /\ cleanup[k].next = now + from_secs(cleanup_interval_secs)
        /\ \A j \in 1..Len(pumps) : pumps[j].pc = "select"
        /\ \E i, j \in 1..Len(pumps) :
              /\ pumps[i].tok = k /\ pumps[j].tok = k
              /\ pumps[i].peer_addr \notin DOMAIN sessions[k]
              /\ pumps[j].peer_addr \in DOMAIN sessions[k]
              /\ sessions[k][pumps[j].peer_addr].last_activity < now

\* An update_instance call is between its entry and its return.
UpdateInProgress ==
    \E t \in Callers : callers[t].op = "update" /\ callers[t].pc \notin {"idle", "returned"}

\* C35: while no update call is in progress, the configuration snapshot of
\* the forwarders of a Running instance is the configuration of the
\* instance's definition.
C35_SnapshotIsDefinition ==
    ~UpdateInProgress =>
        \A id \in DOMAIN instances :
            RunningWithHandle(id) =>
                tokens[running_instances[id]].config = instances[id].config

\* C36: once the token of a handle is cancelled, no step gives a task to a
\* connection accepted or a datagram received by its forwarders.
C36_NoHandlerAfterCancel ==
    [][ \A k \in 1..Len(tokens) :
          tokens[k].cancelled =>
              /\ \A i \in 1..Len(conns') : conns'[i].tok = k => i <= Len(conns)
              /\ \A i \in 1..Len(packets') : packets'[i].tok = k => i <= Len(packets) ]_vars

\* C38: the step in which a handler whose connect failed or timed out gets
\* the registry adds exactly 1 to the errors counter of its instance and
\* changes no other counter; the handler has then returned Ok(()), its
\* connection never had a pump, and the forwarders of its handle are as they
\* were, the accept loop among them.
C38_FailedConnectCountsOneError ==
    [][ \A i \in 1..Len(conns) :
          conns[i].handler = "errors_lock" =>
              /\ conns'[i].client_to_server = NoPump
              /\ conns'[i].server_to_client = NoPump
              /\ conns'[i].handler # "errors_lock" =>
                    LET instance_id == tokens[conns[i].tok].id IN
                    /\ conns'[i].handler = "done"
                    /\ instance_id \in DOMAIN instances
                    /\ errors' = [errors EXCEPT ![instance_id] = errors[instance_id] + 1]
                    /\ tokens' = tokens ]_vars

\* A connect has failed and has been counted: the handler has returned, no
\* pump was made for the connection, the instance has one error and its
\* accept loop is listening.
C38_Witness ==
    \E i \in 1..Len(conns) :
        /\ conns[i].handler = "done"
        /\ conns[i].client_to_server = NoPump
        /\ conns[i].server_to_client = NoPump
        /\ errors[tokens[conns[i].tok].id] = 1
        /\ tokens[conns[i].tok].tcp = "listening"
        /\ ~tokens[conns[i].tok].cancelled

\* C37: a turn of an accept or receive loop for a peer the filter of the
\* forwarder denies changes nothing but the access cache of that forwarder:
\* no connection handler, no packet task, no session, no response handler,
\* no datagram sent, no counter, nothing of the registry.
C37_DeniedPeerLeavesNoTrace ==
    [][ ( /\ arrival' # arrival \/ ip_cache' # ip_cache
          /\ IsSome(arrival')
          /\ ~FilterAllows(tokens[Unwrap(arrival').tok].config, Unwrap(arrival').ip) )
        => LET a == Unwrap(arrival')
               other == IF a.proto = "tcp" THEN "udp" ELSE "tcp"
           IN  /\ UNCHANGED << registry, conns, sessions, cleanup, packets, pumps, sent,
                               errors, counter >>
               /\ \A k \in TokenIds : k # a.tok => ip_cache'[k] = ip_cache[k]
               /\ ip_cache'[a.tok][other] = ip_cache[a.tok][other] ]_vars

\* A peer on the deny-list has just been turned away: the cache of the
\* forwarder holds the refusal, and there is no connection, no packet task,
\* no session and no datagram sent.
C37_Witness ==
    \E k \in 1..Len(tokens), proto \in {"tcp", "udp"} :
        /\ IsSome(arrival)
        /\ Unwrap(arrival).tok = k /\ Unwrap(arrival).proto = proto
        /\ ~Unwrap(arrival).ip_allowed
        /\ IsSome(tokens[k].config.ip_filter)
        /\ \E e \in 1..Len(ip_cache[k][proto]) :
              ip_cache[k][proto][e].ip = Unwrap(arrival).ip /\ ~ip_cache[k][proto][e].allowed
        /\ conns = <<>> /\ packets = <<>> /\ pumps = <<>> /\ sent = {}
        /\ sessions[k] = <<>>

\* C39: whatever the order in which the tasks that return buffers run, no
\* tier queue holds more than max_pool_size buffers.
C39_QueueWithinPoolSize ==
    \A t \in TierQueues : Len(pool[t]) <= pool.max_pool_size

\* Two releases into one tier were under way together: one has filled the
\* queue, the other is still to run.
C39_Witness ==
    \E h \in Holders :
        /\ holders[h].pc = "returning"
        /\ Len(pool[tier(holders[h].size_hint)]) = pool.max_pool_size
        /\ \A g \in Holders \ {h} : holders[g].pc = "idle"

\* C40: when start_auto_instances lists the registry at the start of the
\* process, every definition of the store with auto_start set is in it.
C40_AutoStartSeesTheStore ==
    [][ ( /\ callers[MainTask].op # "start_auto" \/ callers[MainTask].pc = "auto_lock"
          /\ callers'[MainTask].op = "start_auto"
          /\ callers'[MainTask].pc # "auto_lock" )
        => \A k \in 1..Len(storage) :
              storage[k].inst.auto_start => storage[k].id \in DOMAIN instances ]_vars

=============================================================================
